---- MODULE Spec2Model ----
(***************************************************************************)
(* Model of the resilient collection core of the data acquisition engine:  *)
(* RateLimiter (core/rate_limiter.py), CircuitBreaker                      *)
(* (core/circuit_breaker.py), RetryHandler (core/retry_handler.py) and     *)
(* BaseCollector.collect_with_protection (core/base_collector.py).         *)
(*                                                                         *)
(* Time is the value of time.time(), in whole seconds.  Coroutines are     *)
(* interleaved at their await points only (asyncio, one event loop): the   *)
(* code between two awaits is one atomic action.                           *)
(***************************************************************************)
EXTENDS Integers, Sequences, FiniteSets, TLC

\* ------------------------------------------------------------------ bounds
\* Wall-clock reading when the objects are constructed (seconds since 1970).
Epoch == 1700000000
\* Seconds the clock may advance past Epoch while the breaker is used on its own.
MaxTimeCB == 2
\* Coroutines that use one breaker / limiter concurrently.
NProcs == 2
\* Largest failure_threshold / success_threshold configured.
MaxThreshold == 2
\* The recovery_timeout configured (seconds).
RecoveryTimeout == 2
\* Admitted CircuitBreaker.call invocations per run of the breaker model.
MaxCBRequests == 3
\* Administrative overrides (reset, force_open) per run of the breaker model.
MaxAdminOps == 1
\* Largest max_attempts configured.
MaxAttempts == 3
\* Seconds the clock may advance past Epoch while the retry handler is used on
\* its own.
MaxTimeRH == 4
\* Largest max_requests configured, and largest cost of one request.
MaxRequests == 2
\* Largest window_seconds configured (the smallest is 1).
MaxWindow == 2
\* Calls (is_allowed, get_status, reset) per run of the rate limiter model.
MaxRLCalls == 2
\* Seconds the clock may advance past Epoch while the limiter is used on its own.
MaxTimeRL == 1
\* collect_with_protection calls started per run of the collector model.
MaxCollections == 2
\* Seconds the clock may advance past Epoch in the collector model.
MaxTimeC == 1

VARIABLES
    now,      \* time.time()
    config,   \* the configuration objects, fixed at construction
    cb,       \* the CircuitBreaker instance
    store,    \* the Redis sorted sets, key -> (member -> score)
    stats,    \* BaseCollector statistics
    proc,     \* the coroutines: program counter and locals
    last,     \* observer: the operation just performed and the state before it
    hist      \* observer: history counters

vars == <<now, config, cb, store, stats, proc, last, hist>>

Procs == 1..NProcs

None == "None"

\* ------------------------------------------------------ exception classes
\* Base classes of the exception classes the code raises or names
\* (Python's built-in hierarchy, and CircuitBreakerOpenError(Exception)).
Bases(cls) ==
    CASE cls = "ConnectionError" -> {"ConnectionError", "OSError", "Exception"}
      [] cls = "TimeoutError" -> {"TimeoutError", "OSError", "Exception"}
      [] cls = "PermissionError" -> {"PermissionError", "OSError", "Exception"}
      [] cls = "OSError" -> {"OSError", "Exception"}
      [] cls = "ValueError" -> {"ValueError", "Exception"}
      [] cls = "AttributeError" -> {"AttributeError", "Exception"}
      [] cls = "CircuitBreakerOpenError" -> {"CircuitBreakerOpenError", "Exception"}
      [] OTHER -> {"Exception"}

\* isinstance(exception, exc_type)
IsInstance(exc, exc_type) == exc_type \in Bases(exc)

\* What the wrapped operation (the fetch) can do: return, or raise.
FuncErrors == {"ConnectionError", "ValueError"}
FuncOutcomes == {"ok"} \cup FuncErrors

\* --------------------------------------------------------- CircuitBreaker
CLOSED == "closed"
OPEN == "open"
HALF_OPEN == "half_open"

CircuitBreakerConfigs ==
    [failure_threshold : 1..MaxThreshold,
     recovery_timeout : {RecoveryTimeout},
     expected_exception : {"Exception", "OSError"},
     success_threshold : 1..MaxThreshold]

\* CircuitBreaker.__init__
NewCircuitBreaker(t) ==
    [state |-> CLOSED, failure_count |-> 0, success_count |-> 0,
     last_failure_time |-> 0, last_state_change |-> t,
     total_requests |-> 0, total_failures |-> 0, total_successes |-> 0]

_transition_to_open(b, t) ==
    [b EXCEPT !.state = OPEN, !.last_state_change = t]

\* Variant: becoming HalfOpen keeps the successes counted so far.
_transition_to_half_open_keeps_successes(b, t) ==
    [b EXCEPT !.state = HALF_OPEN, !.last_state_change = t]

_transition_to_half_open(b, t) ==
    [b EXCEPT !.state = HALF_OPEN, !.last_state_change = t, !.success_count = 0]

\* Variant: closing the breaker keeps the failures counted so far.
_transition_to_closed_keeps_failures(b, t) ==
    [b EXCEPT !.state = CLOSED, !.last_state_change = t, !.success_count = 0]

_transition_to_closed(b, t) ==
    [b EXCEPT !.state = CLOSED, !.last_state_change = t,
              !.failure_count = 0, !.success_count = 0]

\* Variant: an Open breaker admits every call without waiting for recovery.
_can_execute_no_wait(b, c, t) ==
    IF b.state = OPEN /\ t - b.last_failure_time < c.recovery_timeout
    THEN [allowed |-> TRUE, cb |-> b]
    ELSE IF b.state = OPEN
    THEN [allowed |-> TRUE, cb |-> _transition_to_half_open(b, t)]
    ELSE [allowed |-> TRUE, cb |-> b]

\* Variant: the recovery test is strict (>), so a call made exactly
\* recovery_timeout after the last failure is still rejected.
_can_execute_strict(b, c, t) ==
    IF b.state = OPEN THEN
        IF t - b.last_failure_time > c.recovery_timeout
        THEN [allowed |-> TRUE, cb |-> _transition_to_half_open(b, t)]
        ELSE [allowed |-> FALSE, cb |-> b]
    ELSE [allowed |-> TRUE, cb |-> b]

\* _can_execute: the answer, and the breaker after it.
_can_execute(b, c, t) ==
    IF b.state = CLOSED THEN [allowed |-> TRUE, cb |-> b]
    ELSE IF b.state = OPEN THEN
        IF t - b.last_failure_time >= c.recovery_timeout
        THEN [allowed |-> TRUE, cb |-> _transition_to_half_open(b, t)]
        ELSE [allowed |-> FALSE, cb |-> b]
    ELSE IF b.state = HALF_OPEN THEN [allowed |-> TRUE, cb |-> b]
    ELSE [allowed |-> FALSE, cb |-> b]

\* Variant: the HalfOpen breaker closes one success late (> for >=).
_on_success_late(b, c, t) ==
    LET b1 == [b EXCEPT !.success_count = @ + 1, !.total_successes = @ + 1]
    IN  IF b1.state = HALF_OPEN THEN
            IF b1.success_count > c.success_threshold
            THEN _transition_to_closed(b1, t)
            ELSE b1
        ELSE IF b1.state = CLOSED THEN [b1 EXCEPT !.failure_count = 0]
        ELSE b1

\* Variant: a success recorded while Closed leaves failure_count as it is.
_on_success_keeps_failures(b, c, t) ==
    LET b1 == [b EXCEPT !.success_count = @ + 1, !.total_successes = @ + 1]
    IN  IF b1.state = HALF_OPEN THEN
            IF b1.success_count >= c.success_threshold
            THEN _transition_to_closed(b1, t)
            ELSE b1
        ELSE b1

_on_success(b, c, t) ==
    LET b1 == [b EXCEPT !.success_count = @ + 1, !.total_successes = @ + 1]
    IN  IF b1.state = HALF_OPEN THEN
            IF b1.success_count >= c.success_threshold
            THEN _transition_to_closed(b1, t)
            ELSE b1
        ELSE IF b1.state = CLOSED THEN [b1 EXCEPT !.failure_count = 0]
        ELSE b1

\* Variant: the Closed breaker opens one failure late (> for >=).
_on_failure_late(b, c, exception, t) ==
    IF ~IsInstance(exception, c.expected_exception) THEN b
    ELSE
        LET b1 == [b EXCEPT !.failure_count = @ + 1, !.total_failures = @ + 1,
                            !.last_failure_time = t]
        IN  IF b1.state = CLOSED THEN
                IF b1.failure_count > c.failure_threshold
                THEN _transition_to_open(b1, t)
                ELSE b1
            ELSE IF b1.state = HALF_OPEN THEN _transition_to_open(b1, t)
            ELSE b1

\* Variant: a HalfOpen breaker reopens only once failure_threshold is reached.
_on_failure_threshold_in_half_open(b, c, exception, t) ==
    IF ~IsInstance(exception, c.expected_exception) THEN b
    ELSE
        LET b1 == [b EXCEPT !.failure_count = @ + 1, !.total_failures = @ + 1,
                            !.last_failure_time = t]
        IN  IF b1.state \in {CLOSED, HALF_OPEN} THEN
                IF b1.failure_count >= c.failure_threshold
                THEN _transition_to_open(b1, t)
                ELSE b1
            ELSE b1

\* Variant: the failure is counted from a count read before other calls
\* recorded theirs (the count of the Closed breaker starts again at 1).
_on_failure_stale_count(b, c, exception, t) ==
    IF ~IsInstance(exception, c.expected_exception) THEN b
    ELSE
        LET b1 == [b EXCEPT !.failure_count = 1, !.total_failures = @ + 1,
                            !.last_failure_time = t]
        IN  IF b1.state = CLOSED THEN
                IF b1.failure_count >= c.failure_threshold
                THEN _transition_to_open(b1, t)
                ELSE b1
            ELSE IF b1.state = HALF_OPEN THEN _transition_to_open(b1, t)
            ELSE b1

\* Variant: every exception is counted, whatever its class.
_on_failure_counts_all(b, c, exception, t) ==
    LET b1 == [b EXCEPT !.failure_count = @ + 1, !.total_failures = @ + 1,
                        !.last_failure_time = t]
    IN  IF b1.state = CLOSED THEN
            IF b1.failure_count >= c.failure_threshold
            THEN _transition_to_open(b1, t)
            ELSE b1
        ELSE IF b1.state = HALF_OPEN THEN _transition_to_open(b1, t)
        ELSE b1

_on_failure(b, c, exception, t) ==
    IF ~IsInstance(exception, c.expected_exception) THEN b
    ELSE
        LET b1 == [b EXCEPT !.failure_count = @ + 1, !.total_failures = @ + 1,
                            !.last_failure_time = t]
        IN  IF b1.state = CLOSED THEN
                IF b1.failure_count >= c.failure_threshold
                THEN _transition_to_open(b1, t)
                ELSE b1
            ELSE IF b1.state = HALF_OPEN THEN _transition_to_open(b1, t)
            ELSE b1

\* CircuitBreaker.call up to its first await: the admission check, and when it
\* passes the request is counted and the wrapped coroutine is started.
call_begin(b, c, t) ==
    LET r == _can_execute(b, c, t)
    IN  IF ~r.allowed
        THEN [raised |-> "CircuitBreakerOpenError", cb |-> r.cb]
        ELSE [raised |-> None, cb |-> [r.cb EXCEPT !.total_requests = @ + 1]]

\* CircuitBreaker.call after the wrapped coroutine has finished.
call_end(b, c, outcome, t) ==
    IF outcome = "ok" THEN _on_success(b, c, t) ELSE _on_failure(b, c, outcome, t)

\* What CircuitBreaker.call raises to its caller once the wrapped coroutine has
\* finished: nothing when it returned, else its exception (the bare raise).
call_raises(outcome) == IF outcome = "ok" THEN None ELSE outcome

reset(b, t) == _transition_to_closed(b, t)

force_open(b, t) == _transition_to_open(b, t)

\* ------------------------------------------------------------- observers
\* last: the operation just performed and the breaker before it (the breaker
\* after it is cb); cleared when the clock advances.
NoOp == [op |-> "none"]

\* hist: qualifying failures recorded in a row while Closed (streak), successes
\* recorded since the breaker last became HalfOpen (probes), the time of the
\* last failure that reopened a HalfOpen breaker (reopen_at, -1: none since it
\* closed), the administrative overrides made (admin), and the wrapped calls
\* that have returned (succeeded), raised a qualifying failure (failed) or
\* raised another error (raised); the time of the last force_open (forced_at,
\* -1: none since the last reset), and the successes, recorded since the
\* breaker last became HalfOpen, of calls it admitted while HalfOpen (probe_ok).
HistInit ==
    [streak |-> 0, probes |-> 0, reopen_at |-> -1, admin |-> 0,
     succeeded |-> 0, failed |-> 0, raised |-> 0,
     forced_at |-> -1, probe_ok |-> 0]

HistAfter(h, pre, post, op, outcome, probe, t) ==
    LET qual == op = "return" /\ outcome # "ok"
                /\ IsInstance(outcome, config.circuit_breaker.expected_exception)
        good == op = "return" /\ outcome = "ok"
    IN  [streak |->
            IF post.state = CLOSED /\ pre.state # CLOSED THEN 0
            ELSE IF op = "reset" THEN 0
            ELSE IF good /\ pre.state = CLOSED THEN 0
            ELSE IF qual /\ pre.state = CLOSED THEN h.streak + 1
            ELSE h.streak,
         probes |->
            IF post.state = HALF_OPEN /\ pre.state # HALF_OPEN THEN 0
            ELSE IF good /\ pre.state = HALF_OPEN THEN h.probes + 1
            ELSE h.probes,
         reopen_at |->
            IF post.state = CLOSED THEN -1
            ELSE IF qual /\ pre.state = HALF_OPEN THEN t
            ELSE h.reopen_at,
         admin |-> IF op \in {"reset", "force_open"} THEN h.admin + 1 ELSE h.admin,
         succeeded |-> IF good THEN h.succeeded + 1 ELSE h.succeeded,
         failed |-> IF qual THEN h.failed + 1 ELSE h.failed,
         raised |-> IF op = "return" /\ ~good /\ ~qual THEN h.raised + 1
                    ELSE h.raised,
         forced_at |->
            IF op = "force_open" THEN t
            ELSE IF op = "reset" THEN -1
            ELSE h.forced_at,
         probe_ok |->
            IF post.state = HALF_OPEN /\ pre.state # HALF_OPEN THEN 0
            ELSE IF good /\ probe /\ pre.state = HALF_OPEN THEN h.probe_ok + 1
            ELSE h.probe_ok]

\* ------------------------------------------- the breaker used on its own
\* A coroutine is idle, or awaits the wrapped function (running); probe tells
\* whether the breaker was HalfOpen when it admitted the call.
CBIdle == [pc |-> "idle"]

InitCB ==
    /\ now = Epoch
    /\ config \in [circuit_breaker : CircuitBreakerConfigs]
    /\ cb = NewCircuitBreaker(Epoch)
    /\ store = <<>>
    /\ stats = <<>>
    /\ proc = [p \in Procs |-> CBIdle]
    /\ last = NoOp
    /\ hist = HistInit

\* A coroutine calls CircuitBreaker.call(func): rejected, or func is started.
CBCall(p) ==
    /\ proc[p].pc = "idle"
    /\ cb.total_requests < MaxCBRequests
    /\ LET r == call_begin(cb, config.circuit_breaker, now)
       IN  /\ cb' = r.cb
           /\ proc' = [proc EXCEPT ![p] =
                          IF r.raised = None
                          THEN [pc |-> "running",
                                probe |-> r.cb.state = HALF_OPEN]
                          ELSE CBIdle]
           /\ last' = [op |-> "call", pre |-> cb, raised |-> r.raised,
                       invoked |-> proc'[p].pc = "running"]
           /\ hist' = HistAfter(hist, cb, r.cb, "call", "ok", FALSE, now)
    /\ UNCHANGED <<now, config, store, stats>>

\* The wrapped coroutine of p finishes: it returns, or raises.
CBReturn(p) ==
    /\ proc[p].pc = "running"
    /\ \E outcome \in FuncOutcomes :
          LET b == call_end(cb, config.circuit_breaker, outcome, now)
          IN  /\ cb' = b
              /\ last' = [op |-> "return", pre |-> cb, outcome |-> outcome,
                          raised |-> call_raises(outcome),
                          probe |-> proc[p].probe]
              /\ hist' = HistAfter(hist, cb, b, "return", outcome,
                                   proc[p].probe, now)
    /\ proc' = [proc EXCEPT ![p] = CBIdle]
    /\ UNCHANGED <<now, config, store, stats>>

CBReset ==
    /\ hist.admin < MaxAdminOps
    /\ cb' = reset(cb, now)
    /\ last' = [op |-> "reset", pre |-> cb]
    /\ hist' = HistAfter(hist, cb, cb', "reset", "ok", FALSE, now)
    /\ UNCHANGED <<now, config, store, stats, proc>>

CBForceOpen ==
    /\ hist.admin < MaxAdminOps
    /\ cb' = force_open(cb, now)
    /\ last' = [op |-> "force_open", pre |-> cb]
    /\ hist' = HistAfter(hist, cb, cb', "force_open", "ok", FALSE, now)
    /\ UNCHANGED <<now, config, store, stats, proc>>

\* The clock advances.
Tick(limit) ==
    /\ now < Epoch + limit
    /\ now' = now + 1
    /\ last' = NoOp
    /\ UNCHANGED <<config, cb, store, stats, proc, hist>>

CBTick == Tick(MaxTimeCB)

NextCB ==
    \/ \E p \in Procs : CBCall(p)
    \/ \E p \in Procs : CBReturn(p)
    \/ CBReset
    \/ CBForceOpen
    \/ CBTick

SpecCB == InitCB /\ [][NextCB]_vars

\* ------------------------------------------------ claims on the breaker
QualifyingFailure(outcome) ==
    outcome # "ok" /\ IsInstance(outcome, config.circuit_breaker.expected_exception)

\* C3: a call made while the breaker is Open and less than recovery_timeout
\* after last_failure_time is rejected with CircuitBreakerOpenError, the wrapped
\* operation is not invoked and the breaker is left as it was.
C3_OpenRejects ==
    (last.op = "call" /\ last.pre.state = OPEN
        /\ now - last.pre.last_failure_time < config.circuit_breaker.recovery_timeout)
    => (last.raised = "CircuitBreakerOpenError" /\ ~last.invoked /\ cb = last.pre)

C3_Witness ==
    /\ last.op = "call" /\ last.pre.state = OPEN
    /\ now - last.pre.last_failure_time < config.circuit_breaker.recovery_timeout
    /\ last.raised = "CircuitBreakerOpenError"
    /\ \E p \in Procs : proc[p].pc = "running"

\* C4: in Closed a qualifying failure increments failure_count and records its
\* time in last_failure_time, and the breaker opens on that failure exactly when
\* failure_count >= failure_threshold; counted from failure_count = 0 that is
\* the failure_threshold-th qualifying failure in a row, and not an earlier one.
C4_OpensAtThreshold ==
    /\ (last.op = "return" /\ QualifyingFailure(last.outcome) /\ last.pre.state = CLOSED)
       => /\ cb.failure_count = last.pre.failure_count + 1
          /\ cb.last_failure_time = now
          /\ cb.state = IF cb.failure_count >= config.circuit_breaker.failure_threshold
                        THEN OPEN ELSE CLOSED
          /\ cb.state = OPEN => hist.streak = config.circuit_breaker.failure_threshold
    /\ cb.state = CLOSED
       => /\ cb.failure_count = hist.streak
          /\ hist.streak < config.circuit_breaker.failure_threshold

C4_Witness ==
    /\ last.op = "return" /\ QualifyingFailure(last.outcome)
    /\ last.pre.state = CLOSED /\ cb.state = OPEN
    /\ config.circuit_breaker.failure_threshold = MaxThreshold
    /\ hist.streak = MaxThreshold
    /\ cb.last_failure_time = now

\* C5: a call made while Open at a time now with
\* now - last_failure_time >= recovery_timeout moves the breaker to HalfOpen
\* (success_count 0) and the wrapped operation is invoked.
C5_ProbeAfterTimeout ==
    (last.op = "call" /\ last.pre.state = OPEN
        /\ now - last.pre.last_failure_time >= config.circuit_breaker.recovery_timeout)
    => (last.raised = None /\ last.invoked
        /\ cb.state = HALF_OPEN /\ cb.success_count = 0)

C5_Witness ==
    /\ last.op = "call" /\ last.pre.state = OPEN
    /\ last.pre.last_failure_time >= Epoch
    /\ now - last.pre.last_failure_time = config.circuit_breaker.recovery_timeout
    /\ last.invoked /\ cb.state = HALF_OPEN

\* C6: in HalfOpen a success increments success_count, and the breaker closes
\* on that success exactly when success_count >= success_threshold: the
\* success_threshold-th success recorded since it became HalfOpen closes it and
\* no earlier one does.
C6_ClosesAtThreshold ==
    /\ (last.op = "return" /\ last.outcome = "ok" /\ last.pre.state = HALF_OPEN)
       => IF last.pre.success_count + 1 >= config.circuit_breaker.success_threshold
          THEN cb.state = CLOSED
               /\ hist.probes = config.circuit_breaker.success_threshold
          ELSE cb.state = HALF_OPEN
               /\ cb.success_count = last.pre.success_count + 1
    /\ cb.state = HALF_OPEN
       => /\ cb.success_count = hist.probes
          /\ hist.probes < config.circuit_breaker.success_threshold

C6_Witness ==
    /\ last.op = "return" /\ last.outcome = "ok" /\ last.pre.state = HALF_OPEN
    /\ config.circuit_breaker.success_threshold = MaxThreshold
    /\ hist.probes = MaxThreshold
    /\ cb.state = CLOSED

\* C7: a qualifying failure recorded while HalfOpen opens the breaker at once,
\* whatever the counters are, and a call made less than recovery_timeout after
\* that failure (the breaker not having been reset) is rejected.
C7_HalfOpenFailureReopens ==
    /\ (last.op = "return" /\ QualifyingFailure(last.outcome)
           /\ last.pre.state = HALF_OPEN)
       => (cb.state = OPEN /\ cb.last_failure_time = now)
    /\ (last.op = "call" /\ hist.reopen_at >= 0
           /\ now - hist.reopen_at < config.circuit_breaker.recovery_timeout)
       => (last.raised = "CircuitBreakerOpenError" /\ ~last.invoked)

C7_Witness ==
    /\ last.op = "call" /\ hist.reopen_at >= 0
    /\ now - hist.reopen_at < config.circuit_breaker.recovery_timeout
    /\ last.raised = "CircuitBreakerOpenError"
    /\ cb.failure_count < config.circuit_breaker.failure_threshold

\* The calls admitted by the breaker and not yet finished.
InFlight == Cardinality({p \in Procs : proc[p].pc = "running"})

\* C20: with concurrent calls on one breaker, recording an outcome is one
\* atomic step: no counter update is lost (each outcome recorded is counted
\* once, and every admitted call is in flight or recorded), and the
\* transition is decided on the count as it is when the outcome is recorded.
C20_RecordingAtomic ==
    /\ cb.total_successes = hist.succeeded
    /\ cb.total_failures = hist.failed
    /\ cb.total_requests = hist.succeeded + hist.failed + hist.raised + InFlight
    /\ (last.op = "return" /\ QualifyingFailure(last.outcome)) =>
           /\ cb.failure_count = last.pre.failure_count + 1
           /\ last.pre.state = CLOSED =>
                  (cb.state = OPEN <=>
                      last.pre.failure_count + 1
                          >= config.circuit_breaker.failure_threshold)
    /\ (last.op = "return" /\ last.outcome = "ok"
            /\ last.pre.state = HALF_OPEN) =>
           (cb.state = CLOSED <=>
               last.pre.success_count + 1
                   >= config.circuit_breaker.success_threshold)

\* C20 witness: a call records a failure on a Closed breaker on which another
\* call has recorded its failure before, while a further call is still in
\* flight; the breaker opens on the count of both.
C20_Witness ==
    /\ last.op = "return"
    /\ QualifyingFailure(last.outcome)
    /\ last.pre.state = CLOSED
    /\ last.pre.failure_count = 1
    /\ cb.state = OPEN
    /\ InFlight = 1

\* The probe calls in flight: admitted by a HalfOpen breaker (the call that
\* moved it from Open to HalfOpen included) and not yet finished.
ProbesInFlight ==
    Cardinality({p \in Procs : proc[p].pc = "running" /\ proc[p].probe})

\* C21: while the breaker is HalfOpen, the number of probe calls in flight
\* never exceeds success_threshold.
C21_ProbeBound ==
    cb.state = HALF_OPEN =>
        ProbesInFlight <= config.circuit_breaker.success_threshold

\* C23: in the state reached by every transition into Closed (from HalfOpen
\* by successes, or by reset() from any state) failure_count = 0, and in the
\* state reached by every transition into HalfOpen success_count = 0.
C23_CountersResetOnTransition ==
    last.op # "none" =>
        /\ (cb.state = CLOSED /\ (last.pre.state # CLOSED \/ last.op = "reset"))
               => cb.failure_count = 0
        /\ (cb.state = HALF_OPEN /\ last.pre.state # HALF_OPEN)
               => cb.success_count = 0

\* C23 witness: the last probe closes a HalfOpen breaker that had counted
\* failures, after successes had been counted before it became HalfOpen.
C23_Witness ==
    /\ last.op = "return" /\ last.outcome = "ok"
    /\ last.pre.state = HALF_OPEN /\ cb.state = CLOSED
    /\ last.pre.failure_count > 0
    /\ cb.total_successes > hist.probes

\* C24: in Closed a successful call sets failure_count to 0, so qualifying
\* failures separated by a success do not accumulate: a call's outcome
\* leaves the breaker Closed as long as fewer than failure_threshold
\* qualifying failures were recorded since the last success.
C24_SuccessResetsFailures ==
    /\ (last.op = "return" /\ last.outcome = "ok" /\ last.pre.state = CLOSED)
           => (cb.state = CLOSED /\ cb.failure_count = 0 /\ hist.streak = 0)
    /\ (last.op = "return" /\ last.pre.state = CLOSED
            /\ hist.streak < config.circuit_breaker.failure_threshold)
           => cb.state = CLOSED

\* C24 witness: failure_threshold qualifying failures in all, with a success
\* between them, and the breaker is still Closed after the last one.
C24_Witness ==
    /\ last.op = "return" /\ QualifyingFailure(last.outcome)
    /\ last.pre.state = CLOSED /\ cb.state = CLOSED
    /\ hist.admin = 0
    /\ cb.total_failures = config.circuit_breaker.failure_threshold
    /\ cb.total_successes >= 1
    /\ cb.last_state_change = Epoch

\* C25: an error of the wrapped operation that is not a qualifying failure
\* propagates to the caller and leaves state, failure_count, success_count
\* and last_failure_time unchanged, in every breaker state.
C25_OtherErrorsPassThrough ==
    (last.op = "return" /\ last.outcome # "ok"
        /\ ~QualifyingFailure(last.outcome))
    => /\ last.raised = last.outcome
       /\ cb.state = last.pre.state
       /\ cb.failure_count = last.pre.failure_count
       /\ cb.success_count = last.pre.success_count
       /\ cb.last_failure_time = last.pre.last_failure_time

\* C25 witness: such an error is raised by a probe of a HalfOpen breaker, which
\* a qualifying failure would have reopened.
C25_Witness ==
    /\ last.op = "return" /\ last.outcome # "ok"
    /\ ~QualifyingFailure(last.outcome)
    /\ last.pre.state = HALF_OPEN
    /\ last.pre.last_failure_time >= Epoch
    /\ last.raised = last.outcome

\* C33: after force_open(), from any state and any history, the breaker is
\* Open, and every call made less than recovery_timeout after the force_open
\* (the breaker not having been reset) is rejected without invoking the
\* wrapped operation.
C33_ForceOpenHolds ==
    /\ last.op = "force_open" => cb.state = OPEN
    /\ (last.op = "call" /\ hist.forced_at >= 0
           /\ now - hist.forced_at < config.circuit_breaker.recovery_timeout)
       => (last.raised = "CircuitBreakerOpenError" /\ ~last.invoked)

\* C34: the breaker moves from HalfOpen to Closed only after success_threshold
\* calls that it admitted while HalfOpen have succeeded; the success of a call
\* admitted earlier does not count toward closing.
C34_OnlyProbesClose ==
    (last.op = "return" /\ last.pre.state = HALF_OPEN /\ cb.state = CLOSED)
    => (last.probe
        /\ hist.probe_ok >= config.circuit_breaker.success_threshold)

\* C36: between operations, state = Closed implies
\* failure_count < failure_threshold, and state = HalfOpen implies
\* success_count < success_threshold.
C36_CountersBelowThreshold ==
    /\ cb.state = CLOSED =>
           cb.failure_count < config.circuit_breaker.failure_threshold
    /\ cb.state = HALF_OPEN =>
           cb.success_count < config.circuit_breaker.success_threshold

\* C36 witness: the breaker becomes HalfOpen after it had counted, while
\* Closed, at least success_threshold successes.
C36_Witness ==
    /\ last.op = "call" /\ last.pre.state = OPEN
    /\ last.pre.success_count >= config.circuit_breaker.success_threshold
    /\ cb.state = HALF_OPEN
    /\ cb.failure_count >= config.circuit_breaker.failure_threshold

\* ------------------------------------------------------------ RetryHandler
\* Delays are in milliseconds; random.uniform(0.8, 1.2) is one of its two
\* extremes, in thousandths.
JitterFactors == {800, 1200}

\* RetryHandler.__init__: the retryable classes when the config names none.
DefaultRetryableExceptions == {"ConnectionError", "TimeoutError", "OSError", "Exception"}

\* RetryConfigs.api_call() / web_scraping(): the classes they name.
ApiRetryableExceptions == {"ConnectionError", "TimeoutError", "OSError"}

\* retryable_exceptions = None in a RetryConfig.
NoExceptionList == {None}

RetryHandlerInit(c) ==
    IF c.retryable_exceptions = NoExceptionList
    THEN [c EXCEPT !.retryable_exceptions = DefaultRetryableExceptions]
    ELSE c

RetryConfigSet ==
    [max_attempts : 1..MaxAttempts,
     base_delay : {1000},
     max_delay : {1500, 60000},
     strategy : {"exponential", "linear", "constant", "fibonacci"},
     jitter : BOOLEAN,
     backoff_factor : {2},
     retryable_exceptions : {NoExceptionList, ApiRetryableExceptions},
     on_retry : {None, "returns", "raises"}]

\* Variant: every exception is treated as retryable.
_is_retryable_always(c, exception) == TRUE

_is_retryable(c, exception) ==
    \E exc_type \in c.retryable_exceptions : IsInstance(exception, exc_type)

RECURSIVE _fibonacci(_)
_fibonacci(n) == IF n <= 1 THEN n ELSE _fibonacci(n - 1) + _fibonacci(n - 2)

RECURSIVE Pow(_, _)
Pow(x, n) == IF n <= 0 THEN 1 ELSE x * Pow(x, n - 1)

Min(a, b) == IF a <= b THEN a ELSE b

\* Variant: the exponent and the multipliers count from the next attempt
\* (attempt for attempt - 1, attempt + 1 for attempt).
_calculate_delay_one_ahead(c, attempt, jitter_factor) ==
    LET delay ==
            CASE c.strategy = "exponential" ->
                    c.base_delay * Pow(c.backoff_factor, attempt)
              [] c.strategy = "linear" -> c.base_delay * (attempt + 1)
              [] c.strategy = "constant" -> c.base_delay
              [] c.strategy = "fibonacci" ->
                    c.base_delay * _fibonacci(attempt + 1)
              [] OTHER -> c.base_delay
        jittered == IF c.jitter THEN (delay * jitter_factor) \div 1000 ELSE delay
    IN  Min(jittered, c.max_delay)

\* Variant: the delay is clamped to max_delay before the jitter is applied.
_calculate_delay_clamp_first(c, attempt, jitter_factor) ==
    LET delay ==
            CASE c.strategy = "exponential" ->
                    c.base_delay * Pow(c.backoff_factor, attempt - 1)
              [] c.strategy = "linear" -> c.base_delay * attempt
              [] c.strategy = "constant" -> c.base_delay
              [] c.strategy = "fibonacci" -> c.base_delay * _fibonacci(attempt)
              [] OTHER -> c.base_delay
        clamped == Min(delay, c.max_delay)
    IN  IF c.jitter THEN (clamped * jitter_factor) \div 1000 ELSE clamped

\* _calculate_delay, jitter_factor being the value random.uniform returns.
_calculate_delay(c, attempt, jitter_factor) ==
    LET delay ==
            CASE c.strategy = "exponential" ->
                    c.base_delay * Pow(c.backoff_factor, attempt - 1)
              [] c.strategy = "linear" -> c.base_delay * attempt
              [] c.strategy = "constant" -> c.base_delay
              [] c.strategy = "fibonacci" -> c.base_delay * _fibonacci(attempt)
              [] OTHER -> c.base_delay
        jittered == IF c.jitter THEN (delay * jitter_factor) \div 1000 ELSE delay
    IN  Min(jittered, c.max_delay)

\* The values random.uniform can take where _calculate_delay draws one.
JitterChoices(c) == IF c.jitter THEN JitterFactors ELSE {1000}

\* The locals of one RetryHandler.execute call, and what it has done so far:
\* the outcome of each invocation of func, the delays slept, the on_retry calls.
NewExecute ==
    [pc |-> "idle", attempt |-> 0, last_exception |-> None, wake |-> 0,
     result |-> None, outcomes |-> <<>>, sleeps |-> <<>>, callbacks |-> <<>>,
     callback_errors |-> 0]

\* execute: the loop takes its next attempt and awaits func.
execute_attempt(l) == [l EXCEPT !.pc = "running", !.attempt = @ + 1]

\* execute: func returned.
execute_on_return(l, result) ==
    [l EXCEPT !.pc = "returned", !.result = result,
              !.outcomes = Append(@, "ok")]

\* Variant: the exhaustion test is strict (attempt > max_attempts).
execute_on_exception_one_more(c, l, e, jitter_factor, t) ==
    LET l1 == [l EXCEPT !.last_exception = e, !.outcomes = Append(@, e)]
    IN  IF ~_is_retryable(c, e) THEN [l1 EXCEPT !.pc = "raised", !.result = e]
        ELSE IF l1.attempt > c.max_attempts
        THEN [l1 EXCEPT !.pc = "raised", !.result = l1.last_exception]
        ELSE
            LET delay == _calculate_delay(c, l1.attempt, jitter_factor)
            IN  [l1 EXCEPT !.pc = "sleeping", !.sleeps = Append(@, delay),
                           !.wake = t + (delay \div 1000)]

\* Variant: after a retryable failure the next attempt follows without a sleep.
execute_on_exception_no_sleep(c, l, e, jitter_factor, t) ==
    LET l1 == [l EXCEPT !.last_exception = e, !.outcomes = Append(@, e)]
    IN  IF ~_is_retryable(c, e) THEN [l1 EXCEPT !.pc = "raised", !.result = e]
        ELSE IF l1.attempt >= c.max_attempts
        THEN [l1 EXCEPT !.pc = "raised", !.result = l1.last_exception]
        ELSE
            LET delay == _calculate_delay(c, l1.attempt, jitter_factor)
                l2 == IF c.on_retry # None
                      THEN [l1 EXCEPT
                              !.callbacks = Append(@, <<l1.attempt, e, delay>>),
                              !.callback_errors =
                                  IF c.on_retry = "raises" THEN @ + 1 ELSE @]
                      ELSE l1
            IN  [l2 EXCEPT !.pc = "sleeping", !.wake = t]

\* Variant: an error raised by on_retry leaves the except block and ends the
\* execute call.
execute_on_exception_callback_aborts(c, l, e, jitter_factor, t) ==
    LET l1 == [l EXCEPT !.last_exception = e, !.outcomes = Append(@, e)]
    IN  IF ~_is_retryable(c, e) THEN [l1 EXCEPT !.pc = "raised", !.result = e]
        ELSE IF l1.attempt >= c.max_attempts
        THEN [l1 EXCEPT !.pc = "raised", !.result = l1.last_exception]
        ELSE
            LET delay == _calculate_delay(c, l1.attempt, jitter_factor)
                l2 == IF c.on_retry # None
                      THEN [l1 EXCEPT
                              !.callbacks = Append(@, <<l1.attempt, e, delay>>),
                              !.callback_errors =
                                  IF c.on_retry = "raises" THEN @ + 1 ELSE @]
                      ELSE l1
            IN  IF c.on_retry = "raises"
                THEN [l2 EXCEPT !.pc = "raised", !.result = "CallbackError"]
                ELSE [l2 EXCEPT !.pc = "sleeping", !.sleeps = Append(@, delay),
                                !.wake = t + (delay \div 1000)]

\* Variant: the last attempt is followed by another backoff and attempt.
execute_on_exception_unbounded(c, l, e, jitter_factor, t) ==
    LET l1 == [l EXCEPT !.last_exception = e, !.outcomes = Append(@, e)]
    IN  IF ~_is_retryable(c, e) THEN [l1 EXCEPT !.pc = "raised", !.result = e]
        ELSE
            LET delay == _calculate_delay(c, l1.attempt, jitter_factor)
                l2 == IF c.on_retry # None
                      THEN [l1 EXCEPT
                              !.callbacks = Append(@, <<l1.attempt, e, delay>>),
                              !.callback_errors =
                                  IF c.on_retry = "raises" THEN @ + 1 ELSE @]
                      ELSE l1
            IN  [l2 EXCEPT !.pc = "sleeping", !.sleeps = Append(@, delay),
                           !.wake = t + (delay \div 1000)]

\* execute: func raised e (the except block, to the await of asyncio.sleep).
execute_on_exception(c, l, e, jitter_factor, t) ==
    LET l1 == [l EXCEPT !.last_exception = e, !.outcomes = Append(@, e)]
    IN  IF ~_is_retryable(c, e) THEN [l1 EXCEPT !.pc = "raised", !.result = e]
        ELSE IF l1.attempt >= c.max_attempts
        THEN [l1 EXCEPT !.pc = "raised", !.result = l1.last_exception]
        ELSE
            LET delay == _calculate_delay(c, l1.attempt, jitter_factor)
                l2 == IF c.on_retry # None
                      THEN [l1 EXCEPT
                              !.callbacks = Append(@, <<l1.attempt, e, delay>>),
                              !.callback_errors =
                                  IF c.on_retry = "raises" THEN @ + 1 ELSE @]
                      ELSE l1
            IN  [l2 EXCEPT !.pc = "sleeping", !.sleeps = Append(@, delay),
                           !.wake = t + (delay \div 1000)]

\* --------------------------------------- the retry handler used on its own
\* One execute call at a time is followed.
RHProcs == {1}

InitRH ==
    /\ now = Epoch
    /\ \E c \in RetryConfigSet : config = [retry |-> RetryHandlerInit(c)]
    /\ cb = <<>>
    /\ store = <<>>
    /\ stats = <<>>
    /\ proc = [p \in RHProcs |-> NewExecute]
    /\ last = NoOp
    /\ hist = <<>>

\* execute is called: the first attempt starts.
RHStart(p) ==
    /\ proc[p].pc = "idle"
    /\ proc' = [proc EXCEPT ![p] = execute_attempt(@)]
    /\ UNCHANGED <<now, config, cb, store, stats, last, hist>>

\* func finishes: it returns, or raises.
RHComplete(p) ==
    /\ proc[p].pc = "running"
    /\ \E outcome \in FuncOutcomes, jf \in JitterChoices(config.retry) :
          proc' = [proc EXCEPT ![p] =
                      IF outcome = "ok" THEN execute_on_return(@, "ok")
                      ELSE execute_on_exception(config.retry, @, outcome, jf, now)]
    /\ UNCHANGED <<now, config, cb, store, stats, last, hist>>

\* asyncio.sleep(delay) is over: the next attempt starts.
RHWake(p) ==
    /\ proc[p].pc = "sleeping"
    /\ now >= proc[p].wake
    /\ proc' = [proc EXCEPT ![p] = execute_attempt(@)]
    /\ UNCHANGED <<now, config, cb, store, stats, last, hist>>

RHTick == Tick(MaxTimeRH)

NextRH ==
    \/ \E p \in RHProcs : RHStart(p)
    \/ \E p \in RHProcs : RHComplete(p)
    \/ \E p \in RHProcs : RHWake(p)
    \/ RHTick

SpecRH == InitRH /\ [][NextRH]_vars

\* ------------------------------------------- claims on the retry handler
\* e is an error of a class in the configured retryable set (or of a subclass).
Retryable(e) == e # "ok" /\ Bases(e) \cap config.retry.retryable_exceptions # {}

NonRetryable(e) == e # "ok" /\ Bases(e) \cap config.retry.retryable_exceptions = {}

\* C8: when every invocation of the operation raised a retryable error and
\* execute has raised, the operation was invoked exactly max_attempts times,
\* exactly max_attempts - 1 delays were slept, and the error raised is the
\* operation's (last) error.
C8_RetryExhaustion ==
    \A p \in RHProcs :
        (proc[p].pc = "raised"
            /\ \A i \in 1..Len(proc[p].outcomes) : Retryable(proc[p].outcomes[i]))
        => /\ Len(proc[p].outcomes) = config.retry.max_attempts
           /\ Len(proc[p].sleeps) = config.retry.max_attempts - 1
           /\ proc[p].result = proc[p].outcomes[Len(proc[p].outcomes)]

C8_Witness ==
    \E p \in RHProcs :
        /\ proc[p].pc = "raised"
        /\ config.retry.max_attempts = MaxAttempts
        /\ Len(proc[p].outcomes) = MaxAttempts
        /\ \A i \in 1..Len(proc[p].outcomes) : Retryable(proc[p].outcomes[i])
        /\ Len(proc[p].sleeps) = MaxAttempts - 1

\* C9: a non-retryable error raised by the operation on attempt k ends the
\* execute call at once: it is the last invocation (the k-th), execute raises
\* that error, and neither a delay nor an on_retry call was made for it (k - 1
\* delays, and on_retry calls only for the k - 1 earlier attempts).
C9_NonRetryableShortCircuit ==
    \A p \in RHProcs :
        \A k \in 1..Len(proc[p].outcomes) :
            NonRetryable(proc[p].outcomes[k])
            => /\ k = Len(proc[p].outcomes)
               /\ proc[p].attempt = k
               /\ proc[p].pc = "raised"
               /\ proc[p].result = proc[p].outcomes[k]
               /\ Len(proc[p].sleeps) = k - 1
               /\ Len(proc[p].callbacks) =
                      IF config.retry.on_retry = None THEN 0 ELSE k - 1

C9_Witness ==
    \E p \in RHProcs :
        /\ proc[p].pc = "raised"
        /\ Len(proc[p].outcomes) = 2
        /\ NonRetryable(proc[p].outcomes[2])
        /\ config.retry.on_retry # None
        /\ Len(proc[p].callbacks) = 1

\* The delay the strategies are specified to give after failed attempt a,
\* before the clamp: fib(1) = fib(2) = 1, fib(3) = 2, ...
SpecifiedFib == <<1, 1, 2, 3, 5, 8>>

SpecifiedDelay(a) ==
    CASE config.retry.strategy = "exponential" ->
            config.retry.base_delay * Pow(config.retry.backoff_factor, a - 1)
      [] config.retry.strategy = "linear" -> config.retry.base_delay * a
      [] config.retry.strategy = "constant" -> config.retry.base_delay
      [] config.retry.strategy = "fibonacci" ->
            config.retry.base_delay * SpecifiedFib[a]

\* C26: with jitter disabled, the delay slept after failed attempt a is
\* min(max_delay, d), d being the strategy's delay for a; with base_delay 1 s,
\* backoff_factor 2 and max_attempts 3 the exponential delays are 1 s then 2 s.
C26_DelayByStrategy ==
    \A p \in RHProcs :
        ~config.retry.jitter =>
            /\ \A a \in 1..Len(proc[p].sleeps) :
                  proc[p].sleeps[a] = Min(config.retry.max_delay, SpecifiedDelay(a))
            /\ (config.retry.strategy = "exponential"
                    /\ config.retry.max_delay >= 2000
                    /\ Len(proc[p].sleeps) = 2)
               => proc[p].sleeps = <<1000, 2000>>

\* C26 witness: both delays of a three-attempt exponential run were slept.
C26_Witness ==
    \E p \in RHProcs :
        /\ ~config.retry.jitter
        /\ config.retry.strategy = "exponential"
        /\ config.retry.max_attempts = 3
        /\ config.retry.max_delay = 60000
        /\ proc[p].sleeps = <<1000, 2000>>
        /\ proc[p].attempt = 3

\* C27: every delay slept is at most max_delay, for every strategy, attempt
\* number and jitter factor: the clamp comes after the jitter.
C27_DelayClamped ==
    \A p \in RHProcs :
        \A a \in 1..Len(proc[p].sleeps) :
            proc[p].sleeps[a] <= config.retry.max_delay

\* C27 witness: with jitter, a delay whose jittered value exceeds max_delay
\* (2 s times at least 0.8, against 1.5 s) was slept as max_delay.
C27_Witness ==
    \E p \in RHProcs :
        /\ config.retry.jitter
        /\ config.retry.strategy = "exponential"
        /\ config.retry.max_delay = 1500
        /\ Len(proc[p].sleeps) = 2
        /\ proc[p].sleeps[2] = 1500

\* C28: when the operation first succeeds on attempt k, attempts 1..k-1
\* having raised retryable errors, execute returns that attempt's result, the
\* operation was invoked exactly k times and k - 1 delays were slept.
C28_SuccessOnAttemptK ==
    \A p \in RHProcs :
        \A k \in 1..Len(proc[p].outcomes) :
            (proc[p].outcomes[k] = "ok"
                /\ \A i \in 1..(k - 1) : Retryable(proc[p].outcomes[i]))
            => /\ proc[p].pc = "returned"
               /\ proc[p].result = proc[p].outcomes[k]
               /\ Len(proc[p].outcomes) = k
               /\ proc[p].attempt = k
               /\ Len(proc[p].sleeps) = k - 1

\* C28 witness: the operation succeeds on the last attempt allowed.
C28_Witness ==
    \E p \in RHProcs :
        /\ proc[p].pc = "returned"
        /\ config.retry.max_attempts = MaxAttempts
        /\ Len(proc[p].outcomes) = MaxAttempts
        /\ Len(proc[p].sleeps) = MaxAttempts - 1

\* C29: on_retry is invoked once, with (attempt, error, delay), for each
\* failed retryable attempt that is followed by another attempt, and an error
\* it raises does not abort the loop: the delay is slept and the next attempt
\* is made (execute raises the operation's errors only).
C29_OnRetryCallback ==
    \A p \in RHProcs :
        /\ config.retry.on_retry = None => proc[p].callbacks = << >>
        /\ config.retry.on_retry # None =>
              /\ Len(proc[p].callbacks) = Len(proc[p].sleeps)
              /\ Len(proc[p].callbacks) =
                    IF proc[p].pc = "sleeping" THEN proc[p].attempt
                    ELSE IF proc[p].attempt = 0 THEN 0
                    ELSE proc[p].attempt - 1
              /\ \A i \in 1..Len(proc[p].callbacks) :
                    proc[p].callbacks[i] =
                        <<i, proc[p].outcomes[i], proc[p].sleeps[i]>>
        /\ config.retry.on_retry = "raises" =>
              /\ proc[p].callback_errors = Len(proc[p].callbacks)
              /\ proc[p].pc = "raised" =>
                    proc[p].result = proc[p].outcomes[Len(proc[p].outcomes)]

\* C29 witness: on_retry raised after each of two failed attempts and the
\* third attempt was made all the same.
C29_Witness ==
    \E p \in RHProcs :
        /\ config.retry.on_retry = "raises"
        /\ proc[p].callback_errors = 2
        /\ proc[p].attempt = 3
        /\ Len(proc[p].outcomes) = 3

\* ------------------------------------------------------------- RateLimiter
\* The Redis keys the limiter is used with.
Keys == {"k1", "k2"}

RateLimitConfigs ==
    [max_requests : 1..MaxRequests,
     window_seconds : {1, MaxWindow},
     burst_size : {0},
     cost_per_request : {1}]

\* A sorted set is a function from its members to their scores; a key holds a
\* sorted set and the time it expires at (-1: no expiry).  Redis deletes a key
\* whose sorted set becomes empty, and a key whose expiry time has come.
EmptyZSet == << >>

NoKey == [z |-> EmptyZSet, expire_at |-> -1]

NewStore == [k \in Keys |-> NoKey]

\* The key as Redis sees it at time t.
KeyAt(st, key, t) ==
    IF st[key].expire_at >= 0 /\ t >= st[key].expire_at THEN NoKey ELSE st[key]

WithZSet(entry, z) == IF DOMAIN z = {} THEN NoKey ELSE [entry EXCEPT !.z = z]

\* ZREMRANGEBYSCORE key min max: the members whose score is in [min, max] go.
zremrangebyscore(z, min, max) ==
    [m \in {x \in DOMAIN z : ~(min <= z[x] /\ z[x] <= max)} |-> z[m]]

\* ZCARD key.
zcard(z) == Cardinality(DOMAIN z)

\* sum(score for _, score in ZRANGE key 0 -1 WITHSCORES)
RECURSIVE SumScores(_, _)
SumScores(z, members) ==
    IF members = {} THEN 0
    ELSE LET m == CHOOSE x \in members : TRUE
         IN  z[m] + SumScores(z, members \ {m})

\* ZADD key score member: the member is added, or its score replaced.
zadd(z, member, score) ==
    [m \in DOMAIN z \cup {member} |-> IF m = member THEN score ELSE z[m]]

\* ZRANGEBYSCORE key min +inf LIMIT 0 1 WITHSCORES: the list holding the score
\* of the first member, in score order, whose score is >= min (empty: there
\* is none).
zrangebyscore_first(z, min) ==
    LET scores == {z[m] : m \in {x \in DOMAIN z : z[x] >= min}}
    IN  IF scores = {} THEN << >>
        ELSE <<CHOOSE sc \in scores : \A other \in scores : sc <= other>>

\* Variant: the expired entries are found by their member (the request time).
pipeline_execute_by_member(st, key, window_start, t) ==
    LET k == KeyAt(st, key, t)
        z == [m \in {x \in DOMAIN k.z : x > window_start} |-> k.z[m]]
    IN  [store |-> [st EXCEPT ![key] = WithZSet(k, z)],
         current_count |-> zcard(z),
         current_score |-> SumScores(z, DOMAIN z)]

\* The pipeline of is_allowed (MULTI/EXEC, one transaction): remove the
\* expired entries, count and read the rest.
pipeline_execute(st, key, window_start, t) ==
    LET k == KeyAt(st, key, t)
        z == zremrangebyscore(k.z, 0, window_start)
    IN  [store |-> [st EXCEPT ![key] = WithZSet(k, z)],
         current_count |-> zcard(z),
         current_score |-> SumScores(z, DOMAIN z)]

\* redis.zadd(key, {str(current_time): cost})
store_zadd(st, key, current_time, cost, t) ==
    LET k == KeyAt(st, key, t)
    IN  [st EXCEPT ![key] = [k EXCEPT !.z = zadd(k.z, current_time, cost)]]

\* redis.expire(key, window_seconds * 2): nothing when the key does not exist.
store_expire(st, key, seconds, t) ==
    LET k == KeyAt(st, key, t)
    IN  IF DOMAIN k.z = {} THEN [st EXCEPT ![key] = NoKey]
        ELSE [st EXCEPT ![key] = [k EXCEPT !.expire_at = t + seconds]]

\* _get_remaining_time once the store has answered.
_get_remaining_time(c, st, key, window_start, t) ==
    LET oldest_requests == zrangebyscore_first(KeyAt(st, key, t).z, window_start)
    IN  IF oldest_requests # << >>
        THEN c.window_seconds - (t - oldest_requests[1])
        ELSE 0

\* The error path of _get_remaining_time: the store call failed.
_get_remaining_time_on_error == 0

\* ZSCORE key member, or 0 when there is no such member.
zscore_or_0(z, member) == IF member \in DOMAIN z THEN z[member] ELSE 0

\* redis.zremrangebyscore(key, 0, window_start), as get_status issues it.
store_zremrangebyscore(st, key, min, max, t) ==
    LET k == KeyAt(st, key, t)
    IN  [st EXCEPT ![key] = WithZSet(k, zremrangebyscore(k.z, min, max))]

\* Variant: reset leaves the key as it is.
store_delete_nothing(st, key) == st

\* redis.delete(key), as reset issues it.
store_delete(st, key) == [st EXCEPT ![key] = NoKey]

\* The sorted sets as Redis shows them at time t.
Entries(st, t) == [k \in Keys |-> KeyAt(st, k, t).z]

\* The locals of one is_allowed call.
RLIdle == [pc |-> "idle"]

\* ------------------------------------------ the limiter used on its own
\* The coroutines that use one limiter.
RLProcs == {1, 2}

\* hist.admitted[key][t]: the cost admitted for key by requests made at time t
\* (admissions decided by the comparison; an allowed = true given because the
\* store failed is not counted).  hist.calls: the calls made.  hist.plain: so
\* far the limiter has only served is_allowed calls of cost 1, one after the
\* other, and the store has answered each.  hist.fresh: the keys reset and not
\* asked about since.
Times == Epoch..(Epoch + MaxTimeRL)

RLHistInit ==
    [admitted |-> [k \in Keys |-> [t \in Times |-> 0]], calls |-> 0,
     plain |-> TRUE, fresh |-> {}]

InitRL ==
    /\ now = Epoch
    /\ \E c \in RateLimitConfigs, redis \in {None, "up"} :
          config = [rate_limit |-> c, redis |-> redis]
    /\ cb = <<>>
    /\ store = NewStore
    /\ stats = <<>>
    /\ proc = [p \in RLProcs |-> RLIdle]
    /\ last = NoOp
    /\ hist = RLHistInit

\* No other coroutine is inside a call.
OthersIdle(p) == \A q \in RLProcs \ {p} : proc[q].pc = "idle"

\* What is_allowed returns, with the locals l of the call: error says that the
\* except block of is_allowed ran, failed names the store call that failed
\* (None: none did).
IsAllowedReturn(l, allowed, current_score, retry_after, error, failed) ==
    [op |-> "is_allowed", key |-> l.key, cost |-> l.cost, allowed |-> allowed,
     current_score |-> current_score, retry_after |-> retry_after,
     error |-> error, failed |-> failed,
     current_time |-> l.current_time, after_reset |-> l.after_reset]

\* Variant: the except block of is_allowed rejects the request.
is_allowed_on_error_closed(l, failed) ==
    IsAllowedReturn(l, FALSE, None, None, TRUE, failed)

\* is_allowed, the except block: the request is allowed.
is_allowed_on_error(l, failed) ==
    IsAllowedReturn(l, TRUE, None, None, TRUE, failed)

\* is_allowed(key, cost) is called: the time is read and the pipeline is sent.
\* Without a Redis client self.redis.pipeline() raises at once and the except
\* block returns allowed = True.
RLCall(p) ==
    /\ proc[p].pc = "idle"
    /\ hist.calls < MaxRLCalls
    /\ \E key \in Keys, cost \in 1..MaxRequests :
          LET l == [pc |-> "pipeline", key |-> key, cost |-> cost,
                    current_time |-> now,
                    window_start |-> now - config.rate_limit.window_seconds,
                    after_reset |-> key \in hist.fresh]
          IN  /\ hist' = [hist EXCEPT
                            !.calls = @ + 1,
                            !.fresh = @ \ {key},
                            !.plain = @ /\ cost = 1 /\ OthersIdle(p)
                                        /\ config.redis # None]
              /\ IF config.redis = None
                 THEN /\ last' = is_allowed_on_error(l, "client")
                      /\ UNCHANGED proc
                 ELSE /\ proc' = [proc EXCEPT ![p] = l]
                      /\ last' = NoOp
    /\ UNCHANGED <<now, config, cb, store, stats>>

\* The store runs the pipeline; is_allowed compares and goes on to reject
\* (_get_remaining_time) or to admit (zadd).  The observer keeps the sorted
\* sets as they were.
RLPipeline(p) ==
    /\ proc[p].pc = "pipeline"
    /\ LET l == proc[p]
           r == pipeline_execute(store, l.key, l.window_start, now)
       IN  /\ store' = r.store
           /\ proc' = [proc EXCEPT ![p] =
                         [l EXCEPT !.pc =
                              IF r.current_score + l.cost
                                     > config.rate_limit.max_requests
                              THEN "remaining" ELSE "zadd"]
                         @@ [current_score |-> r.current_score]]
           /\ last' = [op |-> "pipeline", key |-> l.key,
                       current_time |-> l.current_time,
                       window_start |-> l.window_start,
                       current_score |-> r.current_score,
                       rejecting |-> r.current_score + l.cost
                                         > config.rate_limit.max_requests,
                       pre |-> Entries(store, now)]
    /\ UNCHANGED <<now, config, cb, stats, hist>>

\* Rejection: the store answers _get_remaining_time; is_allowed returns False.
RLReject(p) ==
    /\ proc[p].pc = "remaining"
    /\ LET l == proc[p]
           remaining_time ==
               _get_remaining_time(config.rate_limit, store, l.key,
                                   l.window_start, now)
       IN  last' = IsAllowedReturn(l, FALSE, l.current_score, remaining_time,
                                   FALSE, None)
    /\ proc' = [proc EXCEPT ![p] = RLIdle]
    /\ UNCHANGED <<now, config, cb, store, stats, hist>>

\* Rejection: the store call of _get_remaining_time fails, its except block
\* returns 0; is_allowed returns False.
RLRejectStoreError(p) ==
    /\ proc[p].pc = "remaining"
    /\ LET l == proc[p]
       IN  last' = IsAllowedReturn(l, FALSE, l.current_score,
                                   _get_remaining_time_on_error, FALSE,
                                   "remaining")
    /\ proc' = [proc EXCEPT ![p] = RLIdle]
    /\ hist' = [hist EXCEPT !.plain = FALSE]
    /\ UNCHANGED <<now, config, cb, store, stats>>

\* Admission: the store adds the entry.
RLZadd(p) ==
    /\ proc[p].pc = "zadd"
    /\ LET l == proc[p]
       IN  store' = store_zadd(store, l.key, l.current_time, l.cost, now)
    /\ proc' = [proc EXCEPT ![p].pc = "expire"]
    /\ last' = NoOp
    /\ UNCHANGED <<now, config, cb, stats, hist>>

\* Admission: the store sets the expiry; is_allowed returns True.
RLExpire(p) ==
    /\ proc[p].pc = "expire"
    /\ LET l == proc[p]
       IN  /\ store' = store_expire(store, l.key,
                                    config.rate_limit.window_seconds * 2, now)
           /\ last' = IsAllowedReturn(l, TRUE, l.current_score + l.cost, None,
                                      FALSE, None)
           /\ hist' = [hist EXCEPT
                         !.admitted[l.key][l.current_time] = @ + l.cost]
    /\ proc' = [proc EXCEPT ![p] = RLIdle]
    /\ UNCHANGED <<now, config, cb, stats>>

\* The pipeline, zadd or expire call of is_allowed fails (the store is
\* unreachable): the except block returns allowed = True.
RLStoreError(p) ==
    /\ proc[p].pc \in {"pipeline", "zadd", "expire"}
    /\ last' = is_allowed_on_error(proc[p], proc[p].pc)
    /\ proc' = [proc EXCEPT ![p] = RLIdle]
    /\ hist' = [hist EXCEPT !.plain = FALSE]
    /\ UNCHANGED <<now, config, cb, store, stats>>

\* get_status(key) is called: the time is read and zremrangebyscore is sent.
\* Without a Redis client the except block returns the error at once.
RLGetStatus(p) ==
    /\ proc[p].pc = "idle"
    /\ hist.calls < MaxRLCalls
    /\ \E key \in Keys :
          /\ IF config.redis = None
             THEN /\ last' = [op |-> "get_status", key |-> key, error |-> TRUE]
                  /\ UNCHANGED proc
             ELSE /\ proc' = [proc EXCEPT ![p] =
                                [pc |-> "status_prune", key |-> key,
                                 current_time |-> now,
                                 window_start |->
                                     now - config.rate_limit.window_seconds]]
                  /\ last' = NoOp
    /\ hist' = [hist EXCEPT !.calls = @ + 1, !.plain = FALSE]
    /\ UNCHANGED <<now, config, cb, store, stats>>

\* get_status: the store runs zremrangebyscore.  The observer keeps the sorted
\* sets as they were.
RLStatusPrune(p) ==
    /\ proc[p].pc = "status_prune"
    /\ LET l == proc[p]
       IN  /\ store' = store_zremrangebyscore(store, l.key, 0, l.window_start, now)
           /\ last' = [op |-> "get_status_store", key |-> l.key,
                       window_start |-> l.window_start,
                       pre |-> Entries(store, now)]
    /\ proc' = [proc EXCEPT ![p].pc = "status_zcard"]
    /\ UNCHANGED <<now, config, cb, stats, hist>>

\* get_status: the store answers zcard.
RLStatusZcard(p) ==
    /\ proc[p].pc = "status_zcard"
    /\ LET l == proc[p]
       IN  proc' = [proc EXCEPT ![p] =
                      [l EXCEPT !.pc = "status_zscore"]
                      @@ [current_count |-> zcard(KeyAt(store, l.key, now).z)]]
    /\ last' = NoOp
    /\ UNCHANGED <<now, config, cb, store, stats, hist>>

\* get_status: the store answers zscore; get_status returns.
RLStatusZscore(p) ==
    /\ proc[p].pc = "status_zscore"
    /\ LET l == proc[p]
       IN  last' = [op |-> "get_status", key |-> l.key, error |-> FALSE,
                    current_count |-> l.current_count,
                    current_score |->
                        zscore_or_0(KeyAt(store, l.key, now).z, l.current_time)]
    /\ proc' = [proc EXCEPT ![p] = RLIdle]
    /\ UNCHANGED <<now, config, cb, store, stats, hist>>

\* A store call of get_status fails: the except block returns the error.
RLStatusStoreError(p) ==
    /\ proc[p].pc \in {"status_prune", "status_zcard", "status_zscore"}
    /\ last' = [op |-> "get_status", key |-> proc[p].key, error |-> TRUE]
    /\ proc' = [proc EXCEPT ![p] = RLIdle]
    /\ UNCHANGED <<now, config, cb, store, stats, hist>>

\* reset(key): the store deletes the key; reset returns True.
RLReset(p) ==
    /\ proc[p].pc = "idle"
    /\ hist.calls < MaxRLCalls
    /\ config.redis # None
    /\ \E key \in Keys :
          /\ store' = store_delete(store, key)
          /\ last' = [op |-> "reset", key |-> key, returned |-> TRUE,
                      pre |-> Entries(store, now)]
          /\ hist' = [hist EXCEPT !.calls = @ + 1, !.plain = FALSE,
                                  !.fresh = @ \cup {key}]
    /\ UNCHANGED <<now, config, cb, stats, proc>>

\* reset(key): the store call fails (or there is no client); reset returns
\* False.
RLResetStoreError(p) ==
    /\ proc[p].pc = "idle"
    /\ hist.calls < MaxRLCalls
    /\ \E key \in Keys :
          last' = [op |-> "reset", key |-> key, returned |-> FALSE,
                   pre |-> Entries(store, now)]
    /\ hist' = [hist EXCEPT !.calls = @ + 1, !.plain = FALSE]
    /\ UNCHANGED <<now, config, cb, store, stats, proc>>

RLTick == Tick(MaxTimeRL)

NextRL ==
    \/ \E p \in RLProcs : RLCall(p)
    \/ \E p \in RLProcs : RLPipeline(p)
    \/ \E p \in RLProcs : RLReject(p)
    \/ \E p \in RLProcs : RLRejectStoreError(p)
    \/ \E p \in RLProcs : RLZadd(p)
    \/ \E p \in RLProcs : RLExpire(p)
    \/ \E p \in RLProcs : RLStoreError(p)
    \/ \E p \in RLProcs : RLGetStatus(p)
    \/ \E p \in RLProcs : RLStatusPrune(p)
    \/ \E p \in RLProcs : RLStatusZcard(p)
    \/ \E p \in RLProcs : RLStatusZscore(p)
    \/ \E p \in RLProcs : RLStatusStoreError(p)
    \/ \E p \in RLProcs : RLReset(p)
    \/ \E p \in RLProcs : RLResetStoreError(p)
    \/ RLTick

SpecRL == InitRL /\ [][NextRL]_vars

\* ------------------------------------------------ claims on the limiter
RECURSIVE SumAdmitted(_, _)
SumAdmitted(f, times) ==
    IF times = {} THEN 0
    ELSE LET t == CHOOSE x \in times : TRUE
         IN  f[t] + SumAdmitted(f, times \ {t})

\* C2: for every key and every window of window_seconds, the costs of the
\* requests admitted within the window sum to at most max_requests.
C2_AdmissionBound ==
    \A key \in Keys, t \in Times :
        SumAdmitted(hist.admitted[key],
                    {u \in Times : t - config.rate_limit.window_seconds < u /\ u <= t})
            <= config.rate_limit.max_requests

\* The cost admitted for key at the times in times.
AdmittedAt(key, times) == SumAdmitted(hist.admitted[key], times)

\* The times of the window of window_seconds that ends at t.
WindowAt(t) == {u \in Times : t - config.rate_limit.window_seconds < u /\ u <= t}

\* C13: with max_requests = N and every request of cost 1, sequential
\* is_allowed calls for one key within one window are allowed while fewer than
\* N were admitted in the window, and the call that finds N admitted earlier
\* in the window is rejected.
C13_SequentialLimit ==
    (hist.plain /\ last.op = "is_allowed") =>
        LET inWindow == WindowAt(last.current_time)
            earlier == inWindow \ {last.current_time}
            before == AdmittedAt(last.key, inWindow)
                          - (IF last.allowed THEN last.cost ELSE 0)
        IN  /\ before < config.rate_limit.max_requests => last.allowed
            /\ AdmittedAt(last.key, earlier) >= config.rate_limit.max_requests
                   => ~last.allowed

\* C14: when is_allowed rejects a request and an entry admitted earlier is
\* still inside the window, retry_after = window_seconds - (now -
\* oldest_entry_time), which is greater than 0.
C14_RetryAfter ==
    (last.op = "is_allowed" /\ ~last.allowed /\ last.failed = None) =>
        LET inWindow == {u \in WindowAt(now) :
                            hist.admitted[last.key][u] > 0}
        IN  inWindow # {} =>
                LET oldest_entry_time ==
                        CHOOSE u \in inWindow : \A v \in inWindow : u <= v
                IN  /\ last.retry_after =
                          config.rate_limit.window_seconds
                              - (now - oldest_entry_time)
                    /\ last.retry_after > 0

\* C22: the pruning of an is_allowed call made at time now removes exactly
\* the entries admitted before now - window_seconds and keeps every entry
\* admitted within the trailing window_seconds, and the kept entries are the
\* ones summed: an entry admitted at t is counted by every attempt at t' with
\* t' - t < window_seconds.  (An entry's member is the time it was admitted at.)
C22_WindowPruning ==
    last.op = "pipeline" =>
        LET before == last.pre[last.key]
            after == KeyAt(store, last.key, now).z
            within == {m \in DOMAIN before : m > last.window_start}
        IN  /\ \A m \in within : m \in DOMAIN after /\ after[m] = before[m]
            /\ \A m \in DOMAIN before :
                  m < last.window_start => m \notin DOMAIN after
            /\ last.current_score = SumScores(before, within)

\* C37: a rejected is_allowed call consumes no budget: it inserts no entry
\* for the key, and the costs of the entries inside the window sum to the same
\* after the store calls of the rejected call as before them.
C37_RejectionConsumesNothing ==
    (last.op = "pipeline" /\ last.rejecting) =>
        LET before == last.pre[last.key]
            after == KeyAt(store, last.key, now).z
        IN  /\ DOMAIN after \subseteq DOMAIN before
            /\ SumScores(after, {m \in DOMAIN after : m > last.window_start})
                 = SumScores(before,
                             {m \in DOMAIN before : m > last.window_start})

\* C15 as stated: whenever a store call fails during is_allowed, is_allowed
\* returns allowed = true.
C15_FailOpenAnyStoreCall ==
    (last.op = "is_allowed" /\ last.failed # None) => last.allowed

\* C15 as amended: when the client is absent or the pipeline, zadd or expire
\* call fails, is_allowed returns allowed = true; when the store call of
\* _get_remaining_time fails, the rejection the pipeline decided stands, with
\* retry_after = 0.
C15_FailOpen ==
    (last.op = "is_allowed" /\ last.failed # None) =>
        IF last.failed = "remaining"
        THEN /\ ~last.allowed
             /\ last.retry_after = 0
             /\ last.current_score + last.cost > config.rate_limit.max_requests
        ELSE last.allowed /\ last.error

\* C15 witness: the store failed on the zadd of a request the comparison had
\* admitted, and is_allowed returned allowed = true.
C15_Witness ==
    /\ last.op = "is_allowed"
    /\ last.failed = "zadd"
    /\ last.allowed

\* C18: get_status does not change the window: every entry made within the
\* trailing window_seconds, of the key asked about and of every other key, is
\* stored with the same cost after the store call of get_status as before it.
C18_GetStatusReadOnly ==
    last.op = "get_status_store" =>
        \A k \in Keys :
            \A m \in DOMAIN last.pre[k] :
                m > last.window_start =>
                    /\ m \in DOMAIN Entries(store, now)[k]
                    /\ Entries(store, now)[k][m] = last.pre[k][m]

Collectors == {1, 2}

\* The config mappings a collector is built from.  max_requests = 0 is the one
\* configuration with which is_allowed can reject a request of cost 1, the
\* pipeline having removed every earlier entry.  A strategy other than
\* 'api_call' and 'web_scraping' takes the custom branch of
\* _init_retry_handler.
CollectorConfigs ==
    [rate_limit : [max_requests : {0, 1}, window_seconds : {MaxWindow},
                   burst_size : {10}, cost_per_request : {1}],
     circuit_breaker : [failure_threshold : {1, 2},
                        recovery_timeout : {1},
                        success_threshold : {1}],
     retry : [strategy : {None, "api_call"}, max_attempts : {2},
              base_delay : {1000}, max_delay : {60000}, jitter : {FALSE}]]

\* _init_rate_limiter
_init_rate_limiter(cfg) ==
    [max_requests |-> cfg.rate_limit.max_requests,
     window_seconds |-> cfg.rate_limit.window_seconds,
     burst_size |-> cfg.rate_limit.burst_size,
     cost_per_request |-> cfg.rate_limit.cost_per_request]

\* _init_circuit_breaker
_init_circuit_breaker(cfg) ==
    [failure_threshold |-> cfg.circuit_breaker.failure_threshold,
     recovery_timeout |-> cfg.circuit_breaker.recovery_timeout,
     expected_exception |-> "Exception",
     success_threshold |-> cfg.circuit_breaker.success_threshold]

\* RetryConfigs.api_call()
api_call ==
    [max_attempts |-> 3, base_delay |-> 1000, max_delay |-> 30000,
     strategy |-> "exponential", jitter |-> TRUE, backoff_factor |-> 2,
     retryable_exceptions |-> ApiRetryableExceptions, on_retry |-> None]

\* RetryConfigs.web_scraping()
web_scraping ==
    [max_attempts |-> 5, base_delay |-> 2000, max_delay |-> 120000,
     strategy |-> "exponential", jitter |-> TRUE, backoff_factor |-> 2,
     retryable_exceptions |-> ApiRetryableExceptions, on_retry |-> None]

\* _init_retry_handler
_init_retry_handler(cfg) ==
    IF cfg.retry.strategy = "api_call" THEN RetryHandlerInit(api_call)
    ELSE IF cfg.retry.strategy = "web_scraping" THEN RetryHandlerInit(web_scraping)
    ELSE RetryHandlerInit(
            [max_attempts |-> cfg.retry.max_attempts,
             base_delay |-> cfg.retry.base_delay,
             max_delay |-> cfg.retry.max_delay,
             strategy |-> "exponential", jitter |-> cfg.retry.jitter,
             backoff_factor |-> 2,
             retryable_exceptions |-> NoExceptionList,
             on_retry |-> None])

\* What collect can do: return a CollectionResult ("ok"), return something
\* that is not one (None: "malformed"), return a CollectionResult whose data
\* is not a list (data = None: "no_data"), or raise.
CollectOutcomes == FuncOutcomes \cup {"malformed", "no_data"}

\* The CollectionResult a well-behaved collect returns.
CollectedResult ==
    [data |-> <<"item">>, quality_score |-> 100, errors |-> <<>>,
     warnings |-> <<>>, execution_time |-> 0, cache_hit |-> FALSE,
     retry_count |-> 0]

\* The locals of one collect_with_protection call (those of the execute call
\* it makes included), and what it has done so far: the events published, the
\* is_allowed calls and the fetch invocations made, what the last fetch returned.
\* Observer: c0 is the failure_count of the breaker when the call started, as
\* long as the breaker was Closed then, no other call has changed the breaker
\* since and no attempt of the call has moved it from Open to HalfOpen; -1
\* otherwise.
NewCollection ==
    [pc |-> "idle", attempt |-> 0, last_exception |-> None, wake |-> 0,
     result |-> None, outcomes |-> <<>>, sleeps |-> <<>>, callbacks |-> <<>>,
     callback_errors |-> 0,
     start_time |-> 0, events |-> <<>>, publish_errors |-> 0,
     rl_calls |-> 0, fetches |-> 0, fetched |-> None, escaped |-> None,
     c0 |-> -1]

\* BaseCollector.__init__: the statistics.
NewStats ==
    [total_collections |-> 0, successful_collections |-> 0,
     failed_collections |-> 0, total_execution_time |-> 0]

\* _publish_collection_event: the event reaches the bus, or publishing raises
\* and the error is logged.
_publish_collection_event(l, event_type) ==
    IF config.bus = "up" THEN [l EXCEPT !.events = Append(@, event_type)]
    ELSE [l EXCEPT !.publish_errors = @ + 1]

\* Variant: the except block re-raises the error after recording the failure.
collect_failed_reraise(x, e, t) ==
    [x EXCEPT !.l = [@ EXCEPT !.pc = "done", !.escaped = e],
              !.stats = [@ EXCEPT !.total_collections = @ + 1,
                                  !.failed_collections = @ + 1]]

\* Variant: the elapsed time is taken the wrong way round.
collect_failed_reversed_elapsed(x, e, t) ==
    LET execution_time == x.l.start_time - t
        l1 == _publish_collection_event(x.l, "collection_failed")
    IN  [x EXCEPT
           !.stats = [@ EXCEPT !.total_collections = @ + 1,
                               !.failed_collections = @ + 1,
                               !.total_execution_time = @ + execution_time],
           !.l = [l1 EXCEPT
                    !.pc = "done",
                    !.result = [data |-> <<>>, quality_score |-> 0,
                                errors |-> <<e>>, warnings |-> <<>>,
                                execution_time |-> execution_time,
                                cache_hit |-> FALSE, retry_count |-> 0]]]

\* Variant: the except block counts the call but not its failure.
collect_failed_uncounted(x, e, t) ==
    LET execution_time == t - x.l.start_time
        l1 == _publish_collection_event(x.l, "collection_failed")
    IN  [x EXCEPT
           !.stats = [@ EXCEPT !.total_collections = @ + 1,
                               !.total_execution_time = @ + execution_time],
           !.l = [l1 EXCEPT
                    !.pc = "done",
                    !.result = [data |-> <<>>, quality_score |-> 0,
                                errors |-> <<e>>, warnings |-> <<>>,
                                execution_time |-> execution_time,
                                cache_hit |-> FALSE, retry_count |-> 0]]]

\* collect_with_protection, the except block: x holds the locals, the breaker
\* and the statistics; e is the exception caught.
collect_failed(x, e, t) ==
    LET execution_time == t - x.l.start_time
        l1 == _publish_collection_event(x.l, "collection_failed")
    IN  [x EXCEPT
           !.stats = [@ EXCEPT !.total_collections = @ + 1,
                               !.failed_collections = @ + 1,
                               !.total_execution_time = @ + execution_time],
           !.l = [l1 EXCEPT
                    !.pc = "done",
                    !.result = [data |-> <<>>, quality_score |-> 0,
                                errors |-> <<e>>, warnings |-> <<>>,
                                execution_time |-> execution_time,
                                cache_hit |-> FALSE, retry_count |-> 0]]]

\* Variant: an error of the event bus on the success path is not caught by
\* _publish_collection_event and reaches the except block.
collect_succeeded_publish_raises(x, result, t) ==
    LET execution_time == t - x.l.start_time
        x1 == [x EXCEPT
                 !.stats = [@ EXCEPT !.total_collections = @ + 1,
                                     !.successful_collections = @ + 1,
                                     !.total_execution_time = @ + execution_time]]
    IN  IF result = "malformed"
        THEN collect_failed(x1, "AttributeError", t)
        ELSE IF config.bus # "up"
        THEN collect_failed(x1, "ConnectionError", t)
        ELSE IF result = "no_data"
        THEN collect_failed(
                [x1 EXCEPT !.l = _publish_collection_event(
                                     x.l, "collection_completed")],
                "TypeError", t)
        ELSE [x1 EXCEPT
                !.l = [_publish_collection_event(x.l, "collection_completed")
                         EXCEPT !.pc = "done",
                                !.result = [CollectedResult EXCEPT
                                    !.execution_time = execution_time,
                                    !.retry_count = CollectedResult.retry_count]]]

\* collect_with_protection once execute has returned result.
collect_succeeded(x, result, t) ==
    LET execution_time == t - x.l.start_time
        x1 == [x EXCEPT
                 !.stats = [@ EXCEPT !.total_collections = @ + 1,
                                     !.successful_collections = @ + 1,
                                     !.total_execution_time = @ + execution_time]]
    IN  IF result = "malformed"
        THEN collect_failed(x1, "AttributeError", t)
        ELSE IF result = "no_data"
        THEN collect_failed(
                [x1 EXCEPT !.l = _publish_collection_event(
                                     x.l, "collection_completed")],
                "TypeError", t)
        ELSE [x1 EXCEPT
                !.l = [_publish_collection_event(x.l, "collection_completed")
                         EXCEPT !.pc = "done",
                                !.result = [CollectedResult EXCEPT
                                    !.execution_time = execution_time,
                                    !.retry_count = CollectedResult.retry_count]]]

\* The call that execute awaits raised e: the except block of execute, and
\* the except block of collect_with_protection when execute raises.
attempt_raised(x, e, jitter_factor, t) ==
    LET l1 == execute_on_exception(config.retry, x.l, e, jitter_factor, t)
    IN  IF l1.pc = "raised"
        THEN collect_failed([x EXCEPT !.l = l1], l1.result, t)
        ELSE [x EXCEPT !.l = l1]

\* Variant: is_allowed is called inside the retried operation.
attempt_begin_charging(x, jitter_factor, t) ==
    LET l1 == [execute_attempt(x.l) EXCEPT !.rl_calls = @ + 1]
        r == call_begin(x.cb, config.circuit_breaker, t)
    IN  IF r.raised = None
        THEN [x EXCEPT !.l = [l1 EXCEPT !.fetches = @ + 1], !.cb = r.cb]
        ELSE attempt_raised([x EXCEPT !.l = l1, !.cb = r.cb], r.raised,
                            jitter_factor, t)

\* execute takes its next attempt: CircuitBreaker.call starts the fetch, or
\* rejects the call.
attempt_begin(x, jitter_factor, t) ==
    LET l1 == execute_attempt(x.l)
        r == call_begin(x.cb, config.circuit_breaker, t)
    IN  IF r.raised = None
        THEN [x EXCEPT !.l = [l1 EXCEPT !.fetches = @ + 1], !.cb = r.cb]
        ELSE attempt_raised([x EXCEPT !.l = l1, !.cb = r.cb], r.raised,
                            jitter_factor, t)

\* Variant: a failed fetch of an attempt is not recorded by the breaker.
attempt_end_unrecorded(x, outcome, jitter_factor, t) ==
    IF outcome \in {"ok", "malformed", "no_data"}
    THEN collect_succeeded(
            [x EXCEPT !.cb = call_end(x.cb, config.circuit_breaker, "ok", t),
                      !.l = [execute_on_return(x.l, outcome)
                               EXCEPT !.fetched = outcome]],
            outcome, t)
    ELSE attempt_raised(x, outcome, jitter_factor, t)

\* The fetch finished with outcome: CircuitBreaker.call records it, execute
\* and collect_with_protection go on from it.
attempt_end(x, outcome, jitter_factor, t) ==
    IF outcome \in {"ok", "malformed", "no_data"}
    THEN collect_succeeded(
            [x EXCEPT !.cb = call_end(x.cb, config.circuit_breaker, "ok", t),
                      !.l = [execute_on_return(x.l, outcome)
                               EXCEPT !.fetched = outcome]],
            outcome, t)
    ELSE attempt_raised(
            [x EXCEPT !.cb = call_end(x.cb, config.circuit_breaker, outcome, t)],
            outcome, jitter_factor, t)

\* -------------------------------------------------- the collector model
Ctx(p) == [l |-> proc[p], cb |-> cb, stats |-> stats]

\* The step of p ends in x; a call that has returned is handed to the
\* observer, with the statistics as they were before its last step, and p is
\* free for its next call.
Becomes(p, x) ==
    /\ proc' = [q \in Collectors |->
                  IF q = p
                  THEN IF x.l.pc = "done" THEN NewCollection
                       ELSE IF cb.state = OPEN /\ x.cb.state = HALF_OPEN
                       THEN [x.l EXCEPT !.c0 = -1]
                       ELSE x.l
                  ELSE IF x.cb # cb /\ proc[q].pc # "idle"
                  THEN [proc[q] EXCEPT !.c0 = -1]
                  ELSE proc[q]]
    /\ last' = IF x.l.pc = "done"
               THEN [op |-> "collect", call |-> x.l, stats_before |-> stats]
               ELSE NoOp
    /\ cb' = x.cb
    /\ stats' = x.stats

CHistInit == [started |-> 0]

\* The collector once constructed.  _init_rate_limiter gives the limiter no
\* Redis client (redis = None) until one is injected (redis = "up"); without
\* a client max_requests has no effect.  The injected client is followed with
\* the custom retry configuration.  bus says whether publish_event works.
Init ==
    /\ now = Epoch
    /\ \E cfg \in CollectorConfigs, redis \in {None, "up"}, bus \in {"up", "down"} :
          /\ redis = None => cfg.rate_limit.max_requests = 1
          /\ redis = "up" => cfg.retry.strategy = None
          /\ config = [rate_limit |-> _init_rate_limiter(cfg),
                    circuit_breaker |-> _init_circuit_breaker(cfg),
                    retry |-> _init_retry_handler(cfg),
                    redis |-> redis, bus |-> bus]
    /\ cb = NewCircuitBreaker(Epoch)
    /\ store = NewStore
    /\ stats = NewStats
    /\ proc = [p \in Collectors |-> NewCollection]
    /\ last = NoOp
    /\ hist = CHistInit

\* The key of a call: every call of the model has the same target.
RateLimitKey == "k1"

\* collect_with_protection is called: the started event is published.
CStartWithin(p, limit) ==
    /\ proc[p].pc = "idle"
    /\ hist.started < limit
    /\ proc' = [proc EXCEPT ![p] =
                  _publish_collection_event(
                      [NewCollection EXCEPT
                          !.pc = "started", !.start_time = now,
                          !.c0 = IF cb.state = CLOSED THEN cb.failure_count
                                 ELSE -1],
                      "collection_started")]
    /\ hist' = [hist EXCEPT !.started = @ + 1]
    /\ last' = NoOp
    /\ UNCHANGED <<now, config, cb, store, stats>>

CStart(p) == CStartWithin(p, MaxCollections)

\* In the runs checked for termination there are as many calls as coroutines.
CStartOnce(p) == CStartWithin(p, Cardinality(Collectors))

\* is_allowed is called.  Without a Redis client it fails at once and allows
\* the request, and the first attempt starts; with one the pipeline is sent.
CAdmit(p) ==
    /\ proc[p].pc = "started"
    /\ LET l == [proc[p] EXCEPT !.rl_calls = @ + 1]
       IN  IF config.redis = None
           THEN \E jf \in JitterChoices(config.retry) :
                   Becomes(p, attempt_begin([Ctx(p) EXCEPT !.l = l], jf, now))
           ELSE /\ proc' = [proc EXCEPT ![p] =
                              [l EXCEPT !.pc = "pipeline"]
                              @@ [key |-> RateLimitKey, cost |-> 1,
                                  current_time |-> now,
                                  window_start |->
                                      now - config.rate_limit.window_seconds]]
                /\ last' = NoOp
                /\ UNCHANGED <<cb, stats>>
    /\ UNCHANGED <<now, config, store, hist>>

\* The store runs the pipeline; is_allowed compares.
CPipeline(p) ==
    /\ proc[p].pc = "pipeline"
    /\ LET l == proc[p]
           r == pipeline_execute(store, l.key, l.window_start, now)
       IN  /\ store' = r.store
           /\ proc' = [proc EXCEPT ![p].pc =
                          IF r.current_score + l.cost
                                 > config.rate_limit.max_requests
                          THEN "remaining" ELSE "zadd"]
    /\ last' = NoOp
    /\ UNCHANGED <<now, config, cb, stats, hist>>

\* The store adds the entry.
CZadd(p) ==
    /\ proc[p].pc = "zadd"
    /\ LET l == proc[p]
       IN  store' = store_zadd(store, l.key, l.current_time, l.cost, now)
    /\ proc' = [proc EXCEPT ![p].pc = "expire"]
    /\ last' = NoOp
    /\ UNCHANGED <<now, config, cb, stats, hist>>

\* The store sets the expiry, is_allowed returns True: the first attempt starts.
CExpire(p) ==
    /\ proc[p].pc = "expire"
    /\ LET l == proc[p]
       IN  store' = store_expire(store, l.key,
                                 config.rate_limit.window_seconds * 2, now)
    /\ \E jf \in JitterChoices(config.retry) :
          Becomes(p, attempt_begin(Ctx(p), jf, now))
    /\ UNCHANGED <<now, config, hist>>

\* The store answers _get_remaining_time, is_allowed returns False: the
\* rate_limit_exceeded event is published.
CRemaining(p) ==
    /\ proc[p].pc = "remaining"
    /\ proc' = [proc EXCEPT ![p] =
                  _publish_collection_event([@ EXCEPT !.pc = "rejected"],
                                            "rate_limit_exceeded")]
    /\ last' = NoOp
    /\ UNCHANGED <<now, config, cb, store, stats, hist>>

\* Variant: the rate-limit exception is recorded by the breaker as a failure.
CRejected_through_breaker(p) ==
    /\ proc[p].pc = "rejected"
    /\ Becomes(p, collect_failed(
                    [Ctx(p) EXCEPT !.cb = _on_failure(cb, config.circuit_breaker,
                                                      "Exception", now)],
                    "Rate limit exceeded", now))
    /\ UNCHANGED <<now, config, store, hist>>

\* The rate-limit exception is raised and caught.
CRejected(p) ==
    /\ proc[p].pc = "rejected"
    /\ Becomes(p, collect_failed(Ctx(p), "Rate limit exceeded", now))
    /\ UNCHANGED <<now, config, store, hist>>

\* The fetch of p finishes.
CFetchDone(p) ==
    /\ proc[p].pc = "running"
    /\ \E outcome \in CollectOutcomes, jf \in JitterChoices(config.retry) :
          Becomes(p, attempt_end(Ctx(p), outcome, jf, now))
    /\ UNCHANGED <<now, config, store, hist>>

\* asyncio.sleep(delay) is over: the next attempt starts.
CWake(p) ==
    /\ proc[p].pc = "sleeping"
    /\ now >= proc[p].wake
    /\ \E jf \in JitterChoices(config.retry) :
          Becomes(p, attempt_begin(Ctx(p), jf, now))
    /\ UNCHANGED <<now, config, store, hist>>

CTick == Tick(MaxTimeC)

Next ==
    \/ \E p \in Collectors : CStart(p)
    \/ \E p \in Collectors : CAdmit(p)
    \/ \E p \in Collectors : CPipeline(p)
    \/ \E p \in Collectors : CZadd(p)
    \/ \E p \in Collectors : CExpire(p)
    \/ \E p \in Collectors : CRemaining(p)
    \/ \E p \in Collectors : CRejected(p)
    \/ \E p \in Collectors : CFetchDone(p)
    \/ \E p \in Collectors : CWake(p)
    \/ CTick

Spec == Init /\ [][Next]_vars

\* The collectors of the runs checked for termination: the api_call
\* configuration with failure_threshold 2 and no Redis client, and the custom
\* configuration with failure_threshold 1 and the injected client; the bus
\* works.
InitLive ==
    /\ now = Epoch
    /\ \E cfg \in CollectorConfigs, redis \in {None, "up"} :
          /\ redis = None => /\ cfg.rate_limit.max_requests = 1
                             /\ cfg.retry.strategy = "api_call"
                             /\ cfg.circuit_breaker.failure_threshold = 2
          /\ redis = "up" => /\ cfg.retry.strategy = None
                             /\ cfg.circuit_breaker.failure_threshold = 1
          /\ config = [rate_limit |-> _init_rate_limiter(cfg),
                    circuit_breaker |-> _init_circuit_breaker(cfg),
                    retry |-> _init_retry_handler(cfg),
                    redis |-> redis, bus |-> "up"]
    /\ cb = NewCircuitBreaker(Epoch)
    /\ store = NewStore
    /\ stats = NewStats
    /\ proc = [p \in Collectors |-> NewCollection]
    /\ last = NoOp
    /\ hist = CHistInit

\* The clock of the runs in which every sleep completes: time goes on while a
\* call sleeps and is not yet due.
CTickSleeping ==
    /\ \E p \in Collectors : proc[p].pc = "sleeping" /\ now < proc[p].wake
    /\ now' = now + 1
    /\ last' = NoOp
    /\ UNCHANGED <<config, cb, store, stats, proc, hist>>

\* The steps of the call of p after its start: each is an await of
\* collect_with_protection that completes.
CStep(p) ==
    \/ CAdmit(p)
    \/ CPipeline(p)
    \/ CZadd(p)
    \/ CExpire(p)
    \/ CRemaining(p)
    \/ CRejected(p)
    \/ CFetchDone(p)
    \/ CWake(p)

NextLive ==
    \/ \E p \in Collectors : CStartOnce(p)
    \/ \E p \in Collectors : CAdmit(p)
    \/ \E p \in Collectors : CPipeline(p)
    \/ \E p \in Collectors : CZadd(p)
    \/ \E p \in Collectors : CExpire(p)
    \/ \E p \in Collectors : CRemaining(p)
    \/ \E p \in Collectors : CRejected(p)
    \/ \E p \in Collectors : CFetchDone(p)
    \/ \E p \in Collectors : CWake(p)
    \/ CTickSleeping

\* The event loop resumes every coroutine whose await has completed, and every
\* store call, fetch and sleep completes.
SpecLive ==
    /\ InitLive
    /\ [][NextLive]_vars
    /\ \A p \in Collectors : WF_vars(CStep(p))
    /\ WF_vars(CTickSleeping)

\* ---------------------------------------------- claims on the collector
\* The calls the model holds: those in progress and the one just returned.
Calls ==
    {proc[p] : p \in Collectors}
        \cup (IF last.op = "collect" THEN {last.call} ELSE {})

\* The result of a call that failed: empty data, the error, quality 0.
Degraded(result) ==
    /\ result.data = <<>>
    /\ result.quality_score = 0
    /\ Len(result.errors) = 1

\* C1: collect_with_protection never raises to its caller: whatever the
\* outcome of the call (the fetch succeeded, the retries were exhausted, a
\* non-retryable error, the breaker rejected the call, the rate limiter
\* rejected admission), the call returns a CollectionResult; on every outcome
\* but success it is the degraded one.
C1_NeverRaises ==
    last.op = "collect" =>
        /\ last.call.escaped = None
        /\ DOMAIN last.call.result = DOMAIN CollectedResult
        /\ \/ last.call.outcomes = <<>>
           \/ last.call.outcomes[Len(last.call.outcomes)] # "ok"
           \/ last.call.result.errors # <<>>
           => Degraded(last.call.result)

\* C1 witness: a call whose second attempt the open breaker rejected, the
\* rejection not being retryable, has returned the degraded result.
C1_Witness ==
    /\ last.op = "collect"
    /\ last.call.outcomes = <<"ConnectionError", "CircuitBreakerOpenError">>
    /\ last.call.fetches = 1
    /\ NonRetryable("CircuitBreakerOpenError")
    /\ last.call.escaped = None
    /\ Degraded(last.call.result)

\* C11: each call invokes is_allowed exactly once, with cost 1, before its
\* first attempt, however many attempts it makes.
C11_OneAdmissionPerCall ==
    \A l \in Calls :
        /\ l.rl_calls <= 1
        /\ l.attempt >= 1 => l.rl_calls = 1
        /\ l.pc = "done" => l.rl_calls = 1
        /\ "cost" \in DOMAIN l => l.cost = 1

\* C11 witness: a call admitted by the store has made two attempts and one
\* is_allowed call.
C11_Witness ==
    /\ last.op = "collect"
    /\ config.redis = "up"
    /\ Len(last.call.outcomes) = 2
    /\ last.call.rl_calls = 1

\* C12: once is_allowed has rejected admission, the call publishes
\* rate_limit_exceeded and returns the degraded result naming the rate limit;
\* it makes no attempt, invokes no fetch, and its steps leave the breaker as
\* it is.
C12_RejectionShortCircuits ==
    [][\A p \in Collectors :
          (proc[p].pc \in {"remaining", "rejected"} /\ proc'[p] # proc[p]) =>
              /\ cb' = cb
              /\ proc[p].pc = "remaining" =>
                    /\ proc'[p].pc = "rejected"
                    /\ config.bus = "up" =>
                           proc'[p].events =
                               <<"collection_started", "rate_limit_exceeded">>
              /\ proc[p].pc = "rejected" =>
                    /\ last'.op = "collect"
                    /\ last'.call.attempt = 0
                    /\ last'.call.fetches = 0
                    /\ last'.call.escaped = None
                    /\ last'.call.result.data = <<>>
                    /\ last'.call.result.errors = <<"Rate limit exceeded">>]_vars

\* C12 witness: a call rejected by the limiter has returned.
C12_Witness ==
    /\ last.op = "collect"
    /\ last.call.rl_calls = 1
    /\ last.call.attempt = 0
    /\ last.call.events =
           <<"collection_started", "rate_limit_exceeded", "collection_failed">>
    /\ last.call.result.errors = <<"Rate limit exceeded">>

\* The call l ended in a terminal failure: admission was rejected, the last
\* attempt raised, or the fetch returned something that is no proper result.
Failed(l) ==
    \/ l.outcomes = <<>>
    \/ l.outcomes[Len(l.outcomes)] # "ok"
    \/ l.fetched # "ok"

\* The message of the failure the call l ended in.
FailureMessage(l) ==
    IF l.outcomes = <<>> THEN "Rate limit exceeded"
    ELSE IF l.outcomes[Len(l.outcomes)] # "ok" THEN l.outcomes[Len(l.outcomes)]
    ELSE IF l.fetched = "malformed" THEN "AttributeError"
    ELSE "TypeError"

\* C16: a call that ends in a terminal failure returns a result with empty
\* data, the failure message as its errors, quality_score 0 and the time
\* elapsed since the call started, which is >= 0.
C16_DegradedResult ==
    (last.op = "collect" /\ Failed(last.call)) =>
        /\ last.call.result.data = <<>>
        /\ last.call.result.errors = <<FailureMessage(last.call)>>
        /\ last.call.result.quality_score = 0
        /\ last.call.result.execution_time = now - last.call.start_time
        /\ last.call.result.execution_time >= 0

\* C16 witness: a call whose every attempt failed returns the degraded result
\* after a backoff delay of a second.
C16_Witness ==
    /\ last.op = "collect"
    /\ last.call.outcomes = <<"ConnectionError", "ConnectionError">>
    /\ last.call.result.errors = <<"ConnectionError">>
    /\ last.call.result.execution_time = 1

\* The terminal events among the events of a call.
TerminalEvents(events) ==
    {i \in 1..Len(events) :
        events[i] \in {"collection_completed", "collection_failed"}}

\* C17: with a working bus, a call emits collection_started first and exactly
\* one terminal event, as its last event before it returns:
\* collection_completed with a success result, collection_failed with a
\* degraded one; rate_limit_exceeded is emitted only by a call whose admission
\* was rejected.
C17_EventOrder ==
    config.bus = "up" =>
        \A l \in Calls :
            /\ l.pc # "idle" => l.events # <<>> /\ l.events[1] = "collection_started"
            /\ \A i \in 2..Len(l.events) : l.events[i] # "collection_started"
            /\ (\E i \in 1..Len(l.events) : l.events[i] = "rate_limit_exceeded")
                   => l.rl_calls = 1 /\ l.attempt = 0
            /\ l.pc # "done" => TerminalEvents(l.events) = {}
            /\ l.pc = "done" =>
                   /\ TerminalEvents(l.events) = {Len(l.events)}
                   /\ l.events[Len(l.events)] =
                          IF l.result.errors = <<>> THEN "collection_completed"
                          ELSE "collection_failed"

\* C10: an open-circuit rejection is terminal for the call in which it
\* occurs: once CircuitBreaker.call has raised CircuitBreakerOpenError, execute
\* makes no further attempt and sleeps no backoff delay for that call.
C10_OpenRejectionTerminal ==
    \A l \in Calls :
        \A i \in 1..Len(l.outcomes) :
            l.outcomes[i] = "CircuitBreakerOpenError" =>
                /\ i = Len(l.outcomes)
                /\ Len(l.sleeps) < i
                /\ l.pc \notin {"sleeping", "running"}

\* C30: on success, the retry_count of the result returned equals the number
\* of failed attempts the retry handler made before the successful attempt of
\* the call (0 when the first attempt succeeds).
C30_RetryCountObservable ==
    (last.op = "collect" /\ ~Failed(last.call)) =>
        last.call.result.retry_count = Len(last.call.outcomes) - 1

\* C31: every call is counted exactly once: it increments total_collections
\* by exactly 1 and exactly one of successful_collections and
\* failed_collections by 1, also when an error occurs after the fetch has
\* succeeded, and also when calls run concurrently.
C31_CountedOnce ==
    last.op = "collect" =>
        /\ stats.total_collections = last.stats_before.total_collections + 1
        /\ \/ /\ stats.successful_collections
                    = last.stats_before.successful_collections + 1
              /\ stats.failed_collections = last.stats_before.failed_collections
           \/ /\ stats.successful_collections
                    = last.stats_before.successful_collections
              /\ stats.failed_collections
                    = last.stats_before.failed_collections + 1

\* C32: in every reachable state,
\* total_collections = successful_collections + failed_collections.
C32_StatsAddUp ==
    stats.total_collections
        = stats.successful_collections + stats.failed_collections

\* C32 witness: a success and a failure have been counted and a call returns
\* while another one is in progress.
C32_Witness ==
    /\ last.op = "collect"
    /\ stats.successful_collections >= 1
    /\ stats.failed_collections >= 1
    /\ \E p \in Collectors : proc[p].pc \notin {"idle", "started"}

\* C38: a failure of the event bus does not change the outcome of a call: the
\* result returned and the statistics updates are determined by what the
\* limiter, the breaker and the fetch did, whether publishing works or raises,
\* and a publish failure on the success path does not turn a success into a
\* failure.
C38_BusFailureHarmless ==
    last.op = "collect" =>
        LET l == last.call
            elapsed == now - l.start_time
        IN  /\ l.escaped = None
            /\ l.result =
                  IF Failed(l)
                  THEN [data |-> <<>>, quality_score |-> 0,
                        errors |-> <<FailureMessage(l)>>, warnings |-> <<>>,
                        execution_time |-> elapsed, cache_hit |-> FALSE,
                        retry_count |-> 0]
                  ELSE [data |-> <<"item">>, quality_score |-> 100,
                        errors |-> <<>>, warnings |-> <<>>,
                        execution_time |-> elapsed, cache_hit |-> FALSE,
                        retry_count |-> 0]
            /\ stats.failed_collections =
                  last.stats_before.failed_collections
                      + (IF Failed(l) THEN 1 ELSE 0)
            /\ stats.successful_collections =
                  last.stats_before.successful_collections
                      + (IF l.fetched # None THEN 1 ELSE 0)
            /\ config.bus = "down" =>
                  (l.events = <<>> /\ l.publish_errors >= 2)

\* C38 witness: the bus is down, both events of a successful call failed to
\* be published, and the call returns the fetched result.
C38_Witness ==
    /\ last.op = "collect"
    /\ config.bus = "down"
    /\ last.call.publish_errors = 2
    /\ last.call.events = <<>>
    /\ last.call.fetched = "ok"
    /\ last.call.result.errors = <<>>
    /\ stats.failed_collections = 0

\* The outcomes of the fetch invocations of the call l (an attempt the
\* breaker rejected invoked no fetch).
FetchOutcomes(l) ==
    {l.outcomes[i] : i \in {j \in 1..Len(l.outcomes) :
                                l.outcomes[j] # "CircuitBreakerOpenError"}}

\* The case of C35: the call l was admitted, the breaker was Closed when it
\* started, no other call changed the breaker during it, every fetch failed
\* with an error of errors, and no attempt of the call found recovery_timeout
\* elapsed since the last failure (which moves the breaker from Open to
\* HalfOpen).
PerAttemptCase(l, errors) ==
    /\ l.outcomes # <<>>
    /\ l.c0 >= 0
    /\ FetchOutcomes(l) \subseteq errors

\* What C35 says of the call l in that case: fetch was invoked exactly
\* min(max_attempts, failure_threshold - c) times, each failure added 1 to
\* failure_count, and the breaker is Open if max_attempts >=
\* failure_threshold - c.
PerAttemptAccounting(l) ==
    LET room == config.circuit_breaker.failure_threshold - l.c0
    IN  /\ l.fetches = Min(config.retry.max_attempts, room)
        /\ cb.failure_count = l.c0 + l.fetches
        /\ config.retry.max_attempts >= room => cb.state = OPEN

\* C35 as stated: the accounting holds whenever every fetch of the call fails,
\* whatever the errors are.
C35_EveryFailure ==
    (last.op = "collect" /\ PerAttemptCase(last.call, FuncErrors))
    => PerAttemptAccounting(last.call)

\* C35, amended: failure accounting is per attempt; when every fetch of the
\* call fails with a retryable error, the one outer call invokes fetch exactly
\* min(max_attempts, failure_threshold - c) times and leaves the breaker Open
\* if max_attempts >= failure_threshold - c.
C35_PerAttemptAccounting ==
    (last.op = "collect"
        /\ PerAttemptCase(last.call, {e \in FuncErrors : Retryable(e)}))
    => PerAttemptAccounting(last.call)

\* C35 witness: the breaker had counted one failure when the call started;
\* the first fetch of the call fails and opens it, and the next attempt is
\* rejected without a fetch.
C35_Witness ==
    /\ last.op = "collect"
    /\ PerAttemptCase(last.call, {e \in FuncErrors : Retryable(e)})
    /\ last.call.c0 = 1
    /\ last.call.fetches = 1
    /\ Len(last.call.outcomes) = 2
    /\ cb.state = OPEN

\* The call l has made at most max_attempts invocations of CircuitBreaker.call
\* and slept at most max_attempts - 1 times.
WithinAttempts(l) ==
    /\ l.attempt <= config.retry.max_attempts
    /\ Len(l.outcomes) <= config.retry.max_attempts
    /\ Len(l.sleeps) <= config.retry.max_attempts - 1

\* C39: every started collect_with_protection call eventually returns, after
\* at most max_attempts invocations of CircuitBreaker.call and at most
\* max_attempts - 1 backoff sleeps, whatever the fetch outcomes and whatever
\* the other calls on the collector do.
C39_Termination ==
    /\ [](\A p \in Collectors : WithinAttempts(proc[p]))
    /\ [](last.op = "collect" => WithinAttempts(last.call))
    /\ \A p \in Collectors : (proc[p].pc # "idle") ~> (proc[p].pc = "idle")

\* C39 witness: a call returns after max_attempts attempts and
\* max_attempts - 1 sleeps while another call on the collector is under way.
C39_Witness ==
    /\ last.op = "collect"
    /\ last.call.attempt = config.retry.max_attempts
    /\ Len(last.call.sleeps) = config.retry.max_attempts - 1
    /\ \E q \in Collectors : proc[q].pc \in {"running", "sleeping"}

====
